---------------------------- MODULE Spec2Model ----------------------------
(***************************************************************************)
(* Agent execution loop and device-operator layer of heyworkly.            *)
(*                                                                         *)
(* Part 1: the IPC route handlers of main/ipcRoutes/agent.ts and the       *)
(* orchestration in services/runAgent.ts, driving the GUIAgent loop of     *)
(* @ui-tars/sdk.  Every `await` of a handler is a suspension point, so a   *)
(* handler is one action per stretch of code between two awaits, and the   *)
(* position of each run is kept in pc.  Spec follows one runAgent request  *)
(* through every failure pattern and every interleaving of user requests;  *)
(* SpecOverlap follows several runAgent requests.                          *)
(*                                                                         *)
(* Part 2 (specification SpecOp): EmbeddedBrowserOperator of               *)
(* main/agent/webviewOperator.ts against a surface that the environment    *)
(* may destroy, recreate or detach between any two protocol calls.         *)
(***************************************************************************)
EXTENDS Integers, Sequences, FiniteSets, TLC

\* ------------------------------------------------------------------ bounds
\* number of runAgent requests that get past the `thinking` check
MaxRuns == 2
\* largest loop-count ceiling the settings may hold
MaxLoopCountSetting == 2
\* phase failures the environment injects in a behaviour of one run (Spec)
MaxFaults == 7
\* phase failures the environment injects while runs overlap (SpecOverlap)
MaxOverlapFaults == 1
\* largest loop-count ceiling while runs overlap (SpecOverlap)
MaxOverlapLoopCount == 1
\* pauseRun / resumeRun / stopRun / clearHistory requests the user makes in one
\* behaviour
MaxUserOps == 2
\* webview surfaces the environment creates one after another (SpecOp)
MaxSurfaces == 2
\* destructions and detaches the environment makes (SpecOp)
MaxEnvEvents == 2
\* screenshot() / execute() calls made on the operator (SpecOp)
MaxOps == 2
MaxDeskOps == 3
MaxScale == 4
MaxAttachments == 1

\* -------------------------------------------------------- program constants
\* retry: { model: { maxRetries: 5 }, screenshot: { maxRetries: 5 },
\*          execute: { maxRetries: 1 } }
ModelMaxRetries == 5
ScreenshotMaxRetries == 5
ExecuteMaxRetries == 1
\* connect(): const maxRetries = 10
ConnectMaxRetries == 10
\* handleDrag(): const steps = 10
DragSteps == 10

Runs == 1..MaxRuns
NoRun == 0

Operators == {"LocalComputer", "LocalBrowser", "RemoteComputer", "RemoteBrowser"}
Phases == {"screenshot", "model", "execute"}
\* the error raised by the k-th retry of a phase; NoError is `null`
PhaseError(p, k) == [phase |-> p, attempt |-> k]
NoError == [phase |-> "none", attempt |-> 0]
TerminalTypes == {"finished", "call_user", "user_stop", "error_env"}

ConnectErrorMsg == [phase |-> "connect", attempt |-> 0]

VARIABLES
    \* ---- the zustand store (store/create.ts)
    thinking,          \* run-in-progress flag
    status,            \* StatusEnum shown to the UI
    errorMsg,          \* "null" or the stored error
    instructions,      \* "" or the instruction text
    abortController,   \* NoRun (null) or the run whose AbortController is stored
    \* ---- SettingStore, read at run start
    settingsOperator,
    maxLoopCount,
    \* ---- AbortController objects and GUIAgentManager
    aborted,           \* runs whose AbortController.signal.aborted is true
    currentAgent,      \* GUIAgentManager.currentAgent: NoRun (null) or a run
    agents,            \* runs for which a GUIAgent has been constructed
    \* ---- one record of control state per runAgent invocation
    nRuns,             \* invocations of runAgent so far
    runLimit,          \* invocations the environment makes in this behaviour
    pc,                \* position of each invocation
    loopCnt,           \* LoopState.iteration
    loopStatus,        \* LoopState.status
    isPaused,          \* GUIAgent pause flag
    isStopped,         \* GUIAgent stop flag (LoopState.cancelled)
    retries,           \* retries made of the phase in progress
    lastError,         \* last error a phase raised
    \* ---- observation (history) variables
    events,            \* phase calls issued, as <<iteration, phase>>
    attachments,       \* processed files stored for the next run
    predictionMarker,  \* the prediction the ScreenMarker overlay shows, as <<run, iteration>>
    hooks,             \* beforeAgentRun/afterAgentRun calls of each run, as <<hook, operator>>
    endReason,         \* why the invocation ended
    outcome,           \* "none", "returned" or "thrown" to the IPC caller
    userOps,           \* pause/resume/stop/clearHistory requests handled so far
    faultBudget,       \* failures the environment may still inject
    \* ---- Electron: the webview surfaces and their debugger channels
    surf,              \* each surface: "absent", "alive" or "destroyed"
    chan,              \* whether the operator's debugger is attached to it
    listening,         \* surfaces carrying the operator's detach/destroyed listeners
    \* ---- EmbeddedBrowserOperator
    wc,                \* this.wc: NoSurface (null) or a surface
    debuggerAttached,  \* this.debuggerAttached
    deviceScaleFactor, \* this.deviceScaleFactor: 0 (null) or the factor
    opPc,              \* position of the operator call in progress
    connectAttempt,    \* `attempt` of connect()
    opKind,            \* "screenshot" or "execute": the call in progress or last made
    opType,            \* action_type of that execute()
    opInputs,          \* action_inputs of that execute()
    todo,              \* protocol calls the call in progress has still to make
    sent,              \* protocol calls its body has sent
    opResult,          \* how the last call ended
    inflight,          \* the awaited sendCommand: sent through an "ok" or a "bad"
                       \* handle; "none" when a delay or nothing is awaited
    \* ---- observation and bounds
    reattaches,        \* attaches made by ensureAttached since the last detach/destruction
    ensures,           \* ensureAttached calls since the last detach/destruction
    envBudget,         \* detaches/destructions the environment may still make
    opBudget,          \* operator calls still to be made
    overridden,        \* surfaces whose present attachment has the viewport override applied
    isMac,             \* os.platform() === 'darwin'
    \* --- NutJSElectronOperator (local desktop) and the ScreenMarker overlays
    overlaysHidden,    \* the overlays are hidden for an operation
    overlayLog,        \* "hide"/"restore" calls made by the operation in progress or last ended
    deskPc,            \* where screenshot()/execute() of the desktop operator stands
    deskType,          \* action_type of the execute() in progress or last ended
    deskTodo,          \* awaited steps of the Windows paste path still to come
    deskPending,       \* outcome of the try block while the finally block sleeps
    deskResult,        \* "none" | "returned" | "thrown"
    deskBudget,        \* desktop operator calls still to be made
    deskContent,       \* action_inputs.content of the execute() in progress or last ended
    clipboard,         \* the text on the system clipboard
    originalClipboard  \* const originalClipboard of the paste path, NoClipboard before it is read

storeVars == <<thinking, status, errorMsg, instructions, abortController>>
settingVars == <<settingsOperator, maxLoopCount>>
agentVars == <<aborted, currentAgent, agents>>
loopVars == <<pc, loopCnt, loopStatus, isPaused, isStopped, retries, lastError>>
histVars == <<events, endReason, outcome, userOps, faultBudget>>
runVars == <<storeVars, settingVars, agentVars, nRuns, runLimit, loopVars, histVars, hooks,
            attachments, predictionMarker>>

opVars == <<surf, chan, listening, wc, debuggerAttached, deviceScaleFactor, opPc,
            connectAttempt, opKind, opType, opInputs, todo, sent, opResult, inflight,
            reattaches, ensures, envBudget, opBudget, overridden, isMac>>

clipVars == <<deskContent, clipboard, originalClipboard>>

deskVars == <<overlaysHidden, overlayLog, deskPc, deskType, deskTodo, deskPending,
              deskResult, deskBudget, clipVars>>

vars == <<runVars, opVars, deskVars>>

\* no prediction shown by the ScreenMarker overlay
NoMarker == <<0, 0>>

Active(r) == pc[r] \notin {"idle", "done"}

\* ---------------------------------------------------------------- Init
\* the store as store/create.ts creates it, no run started
InitRun ==
    /\ thinking = FALSE
    /\ status = "INIT"
    /\ errorMsg = NoError
    /\ instructions = ""
    /\ abortController = NoRun
    /\ settingsOperator \in Operators
    /\ aborted = {}
    /\ currentAgent = NoRun
    /\ agents = {}
    /\ nRuns = 0
    /\ pc = [r \in Runs |-> "idle"]
    /\ loopCnt = [r \in Runs |-> 0]
    /\ loopStatus = [r \in Runs |-> "INIT"]
    /\ isPaused = [r \in Runs |-> FALSE]
    /\ isStopped = [r \in Runs |-> FALSE]
    /\ retries = [r \in Runs |-> 0]
    /\ lastError = [r \in Runs |-> NoError]
    /\ events = [r \in Runs |-> {}]
    /\ hooks = [r \in Runs |-> <<>>]
    /\ attachments = <<>>
    /\ predictionMarker = NoMarker
    /\ endReason = [r \in Runs |-> "none"]
    /\ outcome = [r \in Runs |-> "none"]
    /\ userOps = 0

\* ------------------------------------------------- GUIAgent configuration
\* new GUIAgent({ ..., retry: {...}, maxLoopCount: settings.maxLoopCount })
RetryConfigExecuteTwice(p) ==
    CASE p = "model" -> ModelMaxRetries
      [] p = "screenshot" -> ScreenshotMaxRetries
      [] p = "execute" -> ExecuteMaxRetries + 1

RetryConfig(p) ==
    CASE p = "model" -> ModelMaxRetries
      [] p = "screenshot" -> ScreenshotMaxRetries
      [] p = "execute" -> ExecuteMaxRetries

ConfigMaxLoopCountOffByOne == maxLoopCount + 1

ConfigMaxLoopCount == maxLoopCount

\* signal: abortController?.signal, read by the loop of run r
SignalNotPassed(r) == FALSE

SignalAborted(r) == r \in aborted

\* ------------------------------------------------ GUIAgent (pause/resume/stop)
\* (the flags of an agent whose loop has ended are read by nothing: they are
\* left as the end of the loop left them)
AgentPause(a) == IF pc[a] = "done" THEN isPaused ELSE [isPaused EXCEPT ![a] = TRUE]
AgentResume(a) == [isPaused EXCEPT ![a] = FALSE]
AgentStop(a) == IF pc[a] = "done" THEN isStopped ELSE [isStopped EXCEPT ![a] = TRUE]

Cancelled(r) == isStopped[r] \/ SignalAborted(r)

\* ------------------------------------------------------------ route handlers
\* runAgent, first lines: a request while `thinking` returns at once.
RunAgentRejected ==
    /\ thinking
    /\ UNCHANGED vars

\* the part of services/runAgent.ts from GUIAgent construction to the call of
\* guiAgent.run(): setAgent, beforeAgentRun, and the loop is entered.
CreateAgentAndRun(r) ==
    /\ agents' = agents \cup {r}
    /\ currentAgent' = r
    /\ loopStatus' = [loopStatus EXCEPT ![r] = "RUNNING"]
    /\ pc' = [pc EXCEPT ![r] = "top"]
    /\ hooks' = [hooks EXCEPT ![r] = <<<<"beforeAgentRun", settingsOperator>>>>]

\* runAgent, from the `thinking` check to the first await of services/runAgent.ts
RunAgentStart ==
    /\ ~thinking
    /\ nRuns < runLimit
    /\ LET r == nRuns + 1 IN
        /\ nRuns' = r
        /\ UNCHANGED runLimit
        /\ abortController' = r
        /\ errorMsg' = NoError
        /\ thinking' = TRUE
        /\ UNCHANGED <<status, instructions, settingVars, aborted, loopCnt, isPaused,
                       isStopped, retries, lastError, events, userOps,
                       faultBudget>>
        /\ \/ \* assert(instructions) throws out of the handler
              /\ instructions = ""
              /\ pc' = [pc EXCEPT ![r] = "done"]
              /\ outcome' = [outcome EXCEPT ![r] = "thrown"]
              /\ endReason' = [endReason EXCEPT ![r] = "assert"]
              /\ UNCHANGED <<currentAgent, agents, loopStatus, hooks>>
           \/ \* Operator.LocalComputer: the operator is constructed synchronously
              /\ instructions # ""
              /\ settingsOperator = "LocalComputer"
              /\ CreateAgentAndRun(r)
              /\ UNCHANGED <<outcome, endReason>>
           \/ \* Operator.LocalBrowser: await embeddedOp.connect()
              /\ instructions # ""
              /\ settingsOperator = "LocalBrowser"
              /\ pc' = [pc EXCEPT ![r] = "connect"]
              /\ UNCHANGED <<currentAgent, agents, loopStatus, outcome, endReason, hooks>>
           \/ \* Operator.RemoteComputer / RemoteBrowser: await ...create()
              /\ instructions # ""
              /\ settingsOperator \in {"RemoteComputer", "RemoteBrowser"}
              /\ pc' = [pc EXCEPT ![r] = "create"]
              /\ UNCHANGED <<currentAgent, agents, loopStatus, outcome, endReason, hooks>>
    /\ UNCHANGED <<attachments, predictionMarker, opVars, deskVars>>

\* embeddedOp.connect() resolved
ConnectOk(r) ==
    /\ pc[r] = "connect"
    /\ CreateAgentAndRun(r)
    /\ UNCHANGED <<storeVars, settingVars, aborted, nRuns, runLimit, loopCnt, isPaused, isStopped,
                   retries, lastError, histVars>>
    /\ UNCHANGED <<attachments, predictionMarker, opVars, deskVars>>

\* embeddedOp.connect() rejected: the catch block sets ERROR and returns, and
\* the handler then clears `thinking`.
ConnectFailedNoReturn(r) ==
    /\ pc[r] = "connect"
    /\ status' = "ERROR"
    /\ errorMsg' = ConnectErrorMsg
    /\ endReason' = [endReason EXCEPT ![r] = "connect"]
    /\ CreateAgentAndRun(r)
    /\ UNCHANGED <<thinking, instructions, abortController, settingVars, aborted, nRuns, runLimit,
                   loopCnt, isPaused, isStopped, retries, lastError, events, outcome,
                   userOps, faultBudget>>
    /\ UNCHANGED <<attachments, predictionMarker, opVars, deskVars>>

ConnectFailed(r) ==
    /\ pc[r] = "connect"
    /\ status' = "ERROR"
    /\ errorMsg' = ConnectErrorMsg
    /\ thinking' = FALSE
    /\ pc' = [pc EXCEPT ![r] = "done"]
    /\ outcome' = [outcome EXCEPT ![r] = "returned"]
    /\ endReason' = [endReason EXCEPT ![r] = "connect"]
    /\ UNCHANGED <<instructions, abortController, settingVars, agentVars, nRuns, runLimit, loopCnt,
                   loopStatus, isPaused, isStopped, retries, lastError, events,
                   userOps, faultBudget>>
    /\ UNCHANGED <<hooks, attachments, predictionMarker, opVars, deskVars>>

\* RemoteComputerOperator.create() / createRemoteBrowserOperator() resolved
RemoteCreateOk(r) ==
    /\ pc[r] = "create"
    /\ pc' = [pc EXCEPT ![r] = "proxy"]
    /\ UNCHANGED <<storeVars, settingVars, agentVars, nRuns, runLimit, loopCnt, loopStatus, isPaused,
                   isStopped, retries, lastError, histVars>>
    /\ UNCHANGED <<hooks, attachments, predictionMarker, opVars, deskVars>>

\* ... or rejected: nothing catches it, runAgent rejects and the handler's
\* last statement (thinking: false) is not reached.
RemoteCreateFailed(r) ==
    /\ pc[r] = "create"
    /\ pc' = [pc EXCEPT ![r] = "done"]
    /\ outcome' = [outcome EXCEPT ![r] = "thrown"]
    /\ endReason' = [endReason EXCEPT ![r] = "create"]
    /\ UNCHANGED <<storeVars, settingVars, agentVars, nRuns, runLimit, loopCnt, loopStatus, isPaused,
                   isStopped, retries, lastError, events, userOps, faultBudget>>
    /\ UNCHANGED <<hooks, attachments, predictionMarker, opVars, deskVars>>

\* await ProxyClient.getRemoteVLMResponseApiSupport(), getAuthHeader(),
\* ProxyClient.getRemoteVLMProvider() resolved
RemoteProxyOk(r) ==
    /\ pc[r] = "proxy"
    /\ CreateAgentAndRun(r)
    /\ UNCHANGED <<storeVars, settingVars, aborted, nRuns, runLimit, loopCnt, isPaused, isStopped,
                   retries, lastError, histVars>>
    /\ UNCHANGED <<attachments, predictionMarker, opVars, deskVars>>

RemoteProxyFailed(r) ==
    /\ pc[r] = "proxy"
    /\ pc' = [pc EXCEPT ![r] = "done"]
    /\ outcome' = [outcome EXCEPT ![r] = "thrown"]
    /\ endReason' = [endReason EXCEPT ![r] = "proxy"]
    /\ UNCHANGED <<storeVars, settingVars, agentVars, nRuns, runLimit, loopCnt, loopStatus, isPaused,
                   isStopped, retries, lastError, events, userOps, faultBudget>>
    /\ UNCHANGED <<hooks, attachments, predictionMarker, opVars, deskVars>>

\* a user request other than runAgent is handled (bounds the behaviour)
UserOp ==
    /\ userOps < MaxUserOps
    /\ userOps' = userOps + 1

\* pauseRun
PauseRun ==
    /\ UserOp
    /\ \/ /\ currentAgent # NoRun
          /\ isPaused' = AgentPause(currentAgent)
          /\ thinking' = FALSE
       \/ /\ currentAgent = NoRun
          /\ UNCHANGED <<isPaused, thinking>>
    /\ UNCHANGED <<status, errorMsg, instructions, abortController, settingVars, agentVars,
                   nRuns, runLimit, pc, loopCnt, loopStatus, isStopped, retries, lastError,
                   events, endReason, outcome, faultBudget>>
    /\ UNCHANGED <<hooks, attachments, predictionMarker, opVars, deskVars>>

\* resumeRun
ResumeRun ==
    /\ UserOp
    /\ \/ /\ currentAgent # NoRun
          /\ isPaused' = AgentResume(currentAgent)
          /\ thinking' = FALSE
       \/ /\ currentAgent = NoRun
          /\ UNCHANGED <<isPaused, thinking>>
    /\ UNCHANGED <<status, errorMsg, instructions, abortController, settingVars, agentVars,
                   nRuns, runLimit, pc, loopCnt, loopStatus, isStopped, retries, lastError,
                   events, endReason, outcome, faultBudget>>
    /\ UNCHANGED <<hooks, attachments, predictionMarker, opVars, deskVars>>

\* abortController?.abort()
Abort(c) == IF c = NoRun THEN aborted ELSE aborted \cup {c}

\* stopRun
StopRun ==
    /\ UserOp
    /\ status' = "END"
    /\ thinking' = FALSE
    /\ aborted' = Abort(abortController)
    /\ IF currentAgent # NoRun
         THEN /\ isPaused' = AgentResume(currentAgent)
              /\ isStopped' = AgentStop(currentAgent)
         ELSE UNCHANGED <<isPaused, isStopped>>
    /\ UNCHANGED <<errorMsg, instructions, abortController, settingVars, currentAgent,
                   agents, nRuns, runLimit, pc, loopCnt, loopStatus, retries, lastError,
                   events, endReason, outcome, faultBudget>>
    /\ predictionMarker' = NoMarker
    /\ UNCHANGED <<hooks, attachments, opVars, deskVars>>

\* setInstructions
SetInstructions ==
    /\ \E i \in {"", "task"} : instructions' = i
    /\ UNCHANGED <<thinking, status, errorMsg, abortController, settingVars, agentVars,
                   nRuns, runLimit, loopVars, histVars>>
    /\ UNCHANGED <<hooks, attachments, predictionMarker, opVars, deskVars>>

\* uploadAndProcessFiles: the processed files are appended to the stored attachments
UploadFiles ==
    /\ Len(attachments) < MaxAttachments
    /\ attachments' = Append(attachments, "file")
    /\ UNCHANGED <<storeVars, settingVars, agentVars, nRuns, runLimit, loopVars, histVars,
                   hooks>>
    /\ UNCHANGED <<predictionMarker, opVars, deskVars>>

\* clearHistory
ClearHistory ==
    /\ UserOp
    /\ status' = "END"
    /\ thinking' = FALSE
    /\ errorMsg' = NoError
    /\ instructions' = ""
    /\ UNCHANGED <<abortController, settingVars, agentVars, nRuns, runLimit, loopVars,
                   events, endReason, outcome, faultBudget>>
    /\ attachments' = <<>>
    /\ UNCHANGED <<hooks, predictionMarker, opVars, deskVars>>

\* ------------------------------------------------------- GUIAgent.run loop
\* Top of an iteration: wait while paused, then sample the cancellation, then
\* the loop-count ceiling, then begin the next iteration.
LoopTop(r) ==
    /\ pc[r] = "top"
    /\ ~isPaused[r]
    /\ \/ /\ Cancelled(r)
          /\ loopStatus' = [loopStatus EXCEPT ![r] = "END"]
          /\ endReason' = [endReason EXCEPT ![r] = "cancel"]
          /\ pc' = [pc EXCEPT ![r] = "finally"]
          /\ UNCHANGED <<loopCnt, retries>>
       \/ /\ ~Cancelled(r)
          /\ loopCnt[r] >= ConfigMaxLoopCount
          /\ loopStatus' = [loopStatus EXCEPT ![r] = "END"]
          /\ endReason' = [endReason EXCEPT ![r] = "ceiling"]
          /\ pc' = [pc EXCEPT ![r] = "finally"]
          /\ UNCHANGED <<loopCnt, retries>>
       \/ /\ ~Cancelled(r)
          /\ loopCnt[r] < ConfigMaxLoopCount
          /\ loopCnt' = [loopCnt EXCEPT ![r] = @ + 1]
          /\ retries' = [retries EXCEPT ![r] = 0]
          /\ pc' = [pc EXCEPT ![r] = "screenshot"]
          /\ UNCHANGED <<loopStatus, endReason>>
    /\ UNCHANGED <<storeVars, settingVars, agentVars, nRuns, runLimit, isPaused, isStopped,
                   lastError, events, outcome, userOps, faultBudget>>
    /\ UNCHANGED <<hooks, attachments, predictionMarker, opVars, deskVars>>

\* One attempt of phase p failed: retry while the phase's budget
\* lasts, otherwise the loop ends in ERROR holding that error.
PhaseFailed(r, p) ==
    /\ faultBudget > 0
    /\ faultBudget' = faultBudget - 1
    /\ lastError' = [lastError EXCEPT ![r] = PhaseError(p, retries[r])]
    /\ IF retries[r] < RetryConfig(p)
         THEN /\ retries' = [retries EXCEPT ![r] = @ + 1]
              /\ UNCHANGED <<pc, loopStatus, endReason>>
         ELSE /\ loopStatus' = [loopStatus EXCEPT ![r] = "ERROR"]
              /\ endReason' = [endReason EXCEPT ![r] = "exhausted"]
              /\ pc' = [pc EXCEPT ![r] = "finally"]
              /\ UNCHANGED retries

\* operator.screenshot() under the screenshot retry policy
Screenshot(r) ==
    /\ pc[r] = "screenshot"
    /\ events' = [events EXCEPT ![r] = @ \cup {<<loopCnt[r], "screenshot">>}]
    /\ \/ /\ pc' = [pc EXCEPT ![r] = "model"]
          /\ retries' = [retries EXCEPT ![r] = 0]
          /\ UNCHANGED <<loopStatus, lastError, endReason, faultBudget>>
       \/ PhaseFailed(r, "screenshot")
    /\ UNCHANGED <<storeVars, settingVars, agentVars, nRuns, runLimit, loopCnt, isPaused, isStopped,
                   outcome, userOps>>
    /\ UNCHANGED <<hooks, attachments, predictionMarker, opVars, deskVars>>

\* model call and parse of the prediction under the model retry policy; a
\* terminal prediction ends the loop without an execute call.
Model(r) ==
    /\ pc[r] = "model"
    /\ events' = [events EXCEPT ![r] = @ \cup {<<loopCnt[r], "model">>}]
    /\ \/ /\ pc' = [pc EXCEPT ![r] = "execute"]
          /\ retries' = [retries EXCEPT ![r] = 0]
          /\ UNCHANGED <<loopStatus, lastError, endReason, faultBudget>>
       \/ \E a \in TerminalTypes :
            /\ loopStatus' = [loopStatus EXCEPT ![r] =
                                CASE a = "call_user" -> "CALL_USER"
                                  [] a = "error_env" -> "ERROR"
                                  [] OTHER -> "END"]
            /\ lastError' = [lastError EXCEPT ![r] =
                                IF a = "error_env" THEN PhaseError("error_env", 0) ELSE @]
            /\ endReason' = [endReason EXCEPT ![r] = "terminal"]
            /\ pc' = [pc EXCEPT ![r] = "finally"]
            /\ UNCHANGED <<retries, faultBudget>>
       \/ PhaseFailed(r, "model")
    /\ UNCHANGED <<storeVars, settingVars, agentVars, nRuns, runLimit, loopCnt, isPaused, isStopped,
                   outcome, userOps>>
    /\ UNCHANGED <<hooks, attachments, predictionMarker, opVars, deskVars>>

\* operator.execute(action) under the execute retry policy
Execute(r) ==
    /\ pc[r] = "execute"
    /\ events' = [events EXCEPT ![r] = @ \cup {<<loopCnt[r], "execute">>}]
    /\ \/ /\ pc' = [pc EXCEPT ![r] = "turn"]
          /\ retries' = [retries EXCEPT ![r] = 0]
          /\ UNCHANGED <<loopStatus, lastError, endReason, faultBudget>>
       \/ PhaseFailed(r, "execute")
    /\ UNCHANGED <<storeVars, settingVars, agentVars, nRuns, runLimit, loopCnt, isPaused, isStopped,
                   outcome, userOps>>
    /\ UNCHANGED <<hooks, attachments, predictionMarker, opVars, deskVars>>

\* if (settings.operator === Operator.LocalComputer && predictionParsed?.length &&
\*     screenshotContext?.size && !abortController?.signal?.aborted)
MarkerGuardIgnoringAbort(r, hasPrediction) ==
    settingsOperator = "LocalComputer" /\ hasPrediction

MarkerGuard(r, hasPrediction) ==
    settingsOperator = "LocalComputer" /\ hasPrediction /\ r \notin aborted

\* showPredictionMarker(predictionParsed, screenshotContext) of handleData
HandleDataMarker(r, hasPrediction) ==
    predictionMarker' = IF MarkerGuard(r, hasPrediction) THEN <<r, loopCnt[r]>>
                        ELSE predictionMarker

\* handleData (onData): setState({ ...getState(), status, ... })
HandleDataStatus(s) == s

\* the turn is appended and emitted, then the loop sleeps until the next iteration
Turn(r) ==
    /\ pc[r] = "turn"
    /\ status' = HandleDataStatus(loopStatus[r])
    /\ pc' = [pc EXCEPT ![r] = "top"]
    /\ UNCHANGED <<thinking, errorMsg, instructions, abortController, settingVars,
                   agentVars, nRuns, runLimit, loopCnt, loopStatus, isPaused, isStopped, retries,
                   lastError, histVars>>
    /\ \E hasPrediction \in BOOLEAN : HandleDataMarker(r, hasPrediction)
    /\ UNCHANGED <<hooks, attachments, opVars, deskVars>>

\* onError: setState({ status: ERROR, errorMsg: JSON.stringify({ message, stack }) })
OnErrorMsg(r) == lastError[r]

\* End of guiAgent.run(): the last turn update, onError for an ERROR end; then
\* runAgent clears up and returns, and the handler clears `thinking`.  The
\* LoopState of the run is destroyed here, and with it what was observed of it.
Finally(r) ==
    /\ pc[r] = "finally"
    /\ IF loopStatus[r] = "ERROR"
         THEN /\ status' = "ERROR"
              /\ errorMsg' = OnErrorMsg(r)
         ELSE /\ status' = HandleDataStatus(loopStatus[r])
              /\ UNCHANGED errorMsg
    /\ thinking' = FALSE
    /\ pc' = [pc EXCEPT ![r] = "done"]
    /\ outcome' = [outcome EXCEPT ![r] = "returned"]
    /\ loopCnt' = [loopCnt EXCEPT ![r] = 0]
    /\ loopStatus' = [loopStatus EXCEPT ![r] = "INIT"]
    /\ isPaused' = [isPaused EXCEPT ![r] = FALSE]
    /\ isStopped' = [isStopped EXCEPT ![r] = FALSE]
    /\ retries' = [retries EXCEPT ![r] = 0]
    /\ lastError' = [lastError EXCEPT ![r] = NoError]
    /\ events' = [events EXCEPT ![r] = {}]
    /\ endReason' = [endReason EXCEPT ![r] = "loop"]
    /\ hooks' = [hooks EXCEPT ![r] = Append(@, <<"afterAgentRun", settingsOperator>>)]
    /\ UNCHANGED <<instructions, abortController, settingVars, agentVars, nRuns, runLimit,
                   userOps, faultBudget>>
    /\ attachments' = <<>>
    /\ \E hasPrediction \in BOOLEAN : HandleDataMarker(r, hasPrediction)
    /\ UNCHANGED <<opVars, deskVars>>

\* .catch((e) => { setState({ status: ERROR, errorMsg: e.message }) }) on the promise of
\* guiAgent.run(): the awaited promise resolves whichever way run() settled
RunCatchNone(settled) == settled

RunCatch(settled) == "resolved"

RejectionMsg == [phase |-> "run", attempt |-> 0]

\* guiAgent.run() rejects before its first iteration: the catch above stores the
\* error, then the attachments are cleared, afterAgentRun() is called and the handler
\* clears `thinking`
GuiAgentRunRejects(r) ==
    /\ pc[r] = "top"
    /\ loopCnt[r] = 0
    /\ faultBudget > 0
    /\ faultBudget' = faultBudget - 1
    /\ pc' = [pc EXCEPT ![r] = "done"]
    /\ loopStatus' = [loopStatus EXCEPT ![r] = "INIT"]
    /\ endReason' = [endReason EXCEPT ![r] = "rejected"]
    /\ IF RunCatch("rejected") = "resolved"
         THEN /\ status' = "ERROR"
              /\ errorMsg' = RejectionMsg
              /\ thinking' = FALSE
              /\ outcome' = [outcome EXCEPT ![r] = "returned"]
              /\ hooks' = [hooks EXCEPT ![r] = Append(@, <<"afterAgentRun", settingsOperator>>)]
              /\ attachments' = <<>>
         ELSE /\ outcome' = [outcome EXCEPT ![r] = "thrown"]
              /\ UNCHANGED <<status, errorMsg, thinking, hooks, attachments>>
    /\ UNCHANGED <<instructions, abortController, settingVars, agentVars, nRuns, runLimit,
                   loopCnt, isPaused, isStopped, retries, lastError, events, userOps>>
    /\ UNCHANGED <<predictionMarker, opVars, deskVars>>

LoopStep(r) ==
    \/ LoopTop(r)
    \/ Screenshot(r)
    \/ Model(r)
    \/ Execute(r)
    \/ Turn(r)
    \/ Finally(r)
    \/ GuiAgentRunRejects(r)

\* =========================================================================
\* Part 2: EmbeddedBrowserOperator (main/agent/webviewOperator.ts)
\* =========================================================================

\* private wc: Electron.WebContents | null = null
NoSurface == 0
Surfaces == 1..MaxSurfaces

\* ---- protocol commands: method, event type, argument, click count
\* a JavaScript number that is a ratio of integers, in lowest terms
RECURSIVE GCD(_, _)
GCD(a, b) == IF b = 0 THEN a ELSE GCD(b, a % b)

Rat(n, d) == [n |-> n \div GCD(n, d), d |-> d \div GCD(n, d)]

\* no coordinate given with the command
NoCoord == [n |-> 0, d |-> 0]

Cmd(m, t, a, n) ==
    [method |-> m, type |-> t, arg |-> a, count |-> n, x |-> NoCoord, y |-> NoCoord,
     deltaX |-> 0, deltaY |-> 0, commands |-> ""]
SetViewport == Cmd("Emulation.setDeviceMetricsOverride", "", "1280x720@1", 0)
CaptureScreenshot == Cmd("Page.captureScreenshot", "", "jpeg", 0)
MouseEvent(t, button, n) == Cmd("Input.dispatchMouseEvent", t, button, n)
MouseEventAt(t, x, y, button, n) == [MouseEvent(t, button, n) EXCEPT !.x = x, !.y = y]
KeyEvent(t, key) == Cmd("Input.dispatchKeyEvent", t, key, 0)
\* await delay(ms): no protocol call, but a point where the operation is suspended
Delay(ms) == Cmd("delay", "", "", ms)
IsDelay(c) == c.method = "delay"

\* ---- action inputs (action_inputs of the parsed prediction)
\* a box string: "" (absent), "bad" (no number in it) or "box"
Boxes == {"", "bad", "box"}
\* content of a type action: a body and what follows it: nothing, blanks, a
\* real line feed, or the two characters backslash and n
Contents == [body : {"", "abc"}, tail : {"", " ", "LF", "\\n"}]
\* a key string, already split at blanks and plus signs
KeyStrings == {<<>>, <<"nokey">>, <<"enter">>, <<"ctrl", "c">>, <<"c", "ctrl">>, <<"cmd", "c">>,
               <<"ctrl", "shift", "nokey", "z">>}
Directions == {"", "sideways", "down", "UP", "left", "Right"}
\* a URL string, cut into the pieces a URL parser tells apart; <<>> is no content
Urls == {<<>>,
         <<"example.com">>,
         <<"example.com", ":", "80">>,
         <<"http", ":", "//", "example.com">>,
         <<"HTTPS", ":", "//", "example.com", "/", "a">>,
         <<"javascript", ":", "alert(1)">>,
         <<"ftp", ":", "//", "example.com">>}

NoInputs == [start_box |-> "", end_box |-> "", content |-> [body |-> "", tail |-> ""],
             key |-> <<>>, direction |-> "", url |-> <<>>]

ClickTypes == {"click", "left_click", "left_single"}
DoubleClickTypes == {"double_click", "left_double"}
RightClickTypes == {"right_click", "right_single"}
SignalTypes == {"finished", "call_user", "user_stop"}
ExecuteTypes ==
    ClickTypes \cup DoubleClickTypes \cup RightClickTypes \cup SignalTypes
        \cup {"type", "hotkey", "press", "release", "scroll", "drag", "navigate",
              "navigate_back", "wait", "error_env", "unsupported"}

\* the inputs a prediction of each type is given here
InputsOf(t) ==
    CASE t \in ClickTypes \cup DoubleClickTypes \cup RightClickTypes ->
             {[NoInputs EXCEPT !.start_box = b] : b \in Boxes}
      [] t = "drag" ->
             {[NoInputs EXCEPT !.start_box = b, !.end_box = e] :
                  b \in {"", "box"}, e \in Boxes \cup {"box2"}}
      [] t = "type" -> {[NoInputs EXCEPT !.content = c] : c \in Contents}
      [] t \in {"hotkey", "press", "release"} ->
             {[NoInputs EXCEPT !.key = k] : k \in KeyStrings}
      [] t = "scroll" -> {[NoInputs EXCEPT !.direction = d] : d \in Directions}
      [] t = "navigate" -> {[NoInputs EXCEPT !.url = u] : u \in Urls}
      [] OTHER -> {NoInputs}

\* parseBoxToScreenCoords: null coordinates unless the box holds numbers
ParseBox(b) ==
    CASE b = "box" -> [isNull |-> FALSE, x |-> 6, y |-> 4]
      [] b = "box2" -> [isNull |-> FALSE, x |-> 9, y |-> 1]
      [] OTHER -> [isNull |-> TRUE, x |-> 0, y |-> 0]

\* KEY_DEFS
KnownKeys == {"enter", "ctrl", "cmd", "shift", "a", "c", "x", "v", "z", "y"}
IsModifier(k) == k \in {"ctrl", "cmd", "shift"}
\* KeyDef.key: ctrl is the Command key on macOS
KeyName(k) ==
    CASE k = "ctrl" -> IF isMac THEN "Meta" ELSE "Control"
      [] k = "cmd" -> "Meta"
      [] k = "shift" -> "Shift"
      [] k = "enter" -> "Enter"
      [] OTHER -> k

\* MAC_SHORTCUT_COMMANDS[shortcutKey], "" where it has no entry
MAC_SHORTCUT_COMMANDS(shortcutKey) ==
    CASE shortcutKey = <<"Meta", "a">> -> "selectAll"
      [] shortcutKey = <<"Meta", "c">> -> "copy"
      [] shortcutKey = <<"Meta", "x">> -> "cut"
      [] shortcutKey = <<"Meta", "v">> -> "paste"
      [] shortcutKey = <<"Meta", "z">> -> "undo"
      [] shortcutKey = <<"Meta", "y">> -> "redo"
      [] shortcutKey = <<"Meta", "Shift", "z">> -> "redo"
      [] OTHER -> ""

\* const shortcutKey = defs.map((d) => d.key).join('+');
\* const macCommand = isMac ? MAC_SHORTCUT_COMMANDS[shortcutKey] : undefined
macCommand(defs) ==
    IF isMac THEN MAC_SHORTCUT_COMMANDS([i \in 1..Len(defs) |-> KeyName(defs[i])]) ELSE ""

\* for (const key of keys) { const def = KEY_DEFS[key.toLowerCase()];
\* if (!def) { logger.warn(...); continue } defs.push(def) }
ResolveKeysUntilUnknown(keys) ==
    LET unknown == {i \in 1..Len(keys) : keys[i] \notin KnownKeys} IN
    IF unknown = {} THEN keys
    ELSE SubSeq(keys, 1, (CHOOSE i \in unknown : \A j \in unknown : i <= j) - 1)

ResolveKeys(keys) == SelectSeq(keys, LAMBDA k : k \in KnownKeys)

\* ---- the protocol calls each handler makes, in order
mouseMove(x, y) == <<MouseEventAt("mouseMoved", x, y, "none", 0)>>

mouseClickWithoutMove(x, y, button, clickCount) ==
    <<Delay(100), MouseEventAt("mousePressed", x, y, button, clickCount),
      Delay(50), MouseEventAt("mouseReleased", x, y, button, clickCount),
      Delay(800)>>

mouseClick(x, y, button, clickCount) ==
    mouseMove(x, y)
        \o <<Delay(100), MouseEventAt("mousePressed", x, y, button, clickCount),
                   Delay(50), MouseEventAt("mouseReleased", x, y, button, clickCount),
                   Delay(800)>>

keyTap(key) == <<KeyEvent("rawKeyDown", key), Delay(50), KeyEvent("keyUp", key)>>

\* content?.trim()
Trim(c) == IF c.tail \in {" ", "LF"} THEN [c EXCEPT !.tail = ""] ELSE c

handleType(inputs) ==
    LET content == Trim(inputs.content) IN
    IF content.body = "" /\ content.tail = "" THEN <<>>
    ELSE <<Cmd("Input.insertText", "", content.body, 0)>>
             \o (IF content.tail = "\\n"
                   THEN <<Delay(50)>> \o keyTap("enter") \o <<Delay(2000)>>
                   ELSE <<>>)

handleHotkeyReleaseInOrder(inputs) ==
    LET defs == ResolveKeys(inputs.key)
        modifiers == SelectSeq(defs, IsModifier)
        nonModifiers == SelectSeq(defs, LAMBDA k : ~IsModifier(k))
    IN  IF Len(defs) = 0 THEN <<>>
        ELSE IF Len(defs) = 1 THEN keyTap(defs[1]) \o <<Delay(500)>>
        ELSE [i \in 1..Len(modifiers) |-> KeyEvent("rawKeyDown", modifiers[i])]
             \o [i \in 1..(3 * Len(nonModifiers)) |->
                    CASE i % 3 = 1 -> [KeyEvent("rawKeyDown", nonModifiers[(i + 2) \div 3])
                                          EXCEPT !.commands = macCommand(defs)]
                      [] i % 3 = 2 -> Delay(50)
                      [] OTHER -> KeyEvent("keyUp", nonModifiers[i \div 3])]
             \o [i \in 1..Len(modifiers) |->
                    KeyEvent("keyUp", modifiers[i])]
             \o <<Delay(500)>>

handleHotkey(inputs) ==
    LET defs == ResolveKeys(inputs.key)
        modifiers == SelectSeq(defs, IsModifier)
        nonModifiers == SelectSeq(defs, LAMBDA k : ~IsModifier(k))
    IN  IF Len(defs) = 0 THEN <<>>
        ELSE IF Len(defs) = 1 THEN keyTap(defs[1]) \o <<Delay(500)>>
        ELSE [i \in 1..Len(modifiers) |-> KeyEvent("rawKeyDown", modifiers[i])]
             \o [i \in 1..(3 * Len(nonModifiers)) |->
                    CASE i % 3 = 1 -> [KeyEvent("rawKeyDown", nonModifiers[(i + 2) \div 3])
                                          EXCEPT !.commands = macCommand(defs)]
                      [] i % 3 = 2 -> Delay(50)
                      [] OTHER -> KeyEvent("keyUp", nonModifiers[i \div 3])]
             \o [i \in 1..Len(modifiers) |->
                    KeyEvent("keyUp", modifiers[Len(modifiers) + 1 - i])]
             \o <<Delay(500)>>

handleKeyActionBothWays(inputs, direction) ==
    LET defs == ResolveKeys(inputs.key) IN
    [i \in 1..(3 * Len(defs)) |->
        CASE i % 3 = 1 -> KeyEvent("rawKeyDown", defs[(i + 2) \div 3])
          [] i % 3 = 2 -> KeyEvent("keyUp", defs[(i + 1) \div 3])
          [] OTHER -> Delay(50)]

handleKeyAction(inputs, direction) ==
    LET defs == ResolveKeys(inputs.key) IN
    [i \in 1..(2 * Len(defs)) |->
        IF i % 2 = 1
          THEN KeyEvent(IF direction = "down" THEN "rawKeyDown" ELSE "keyUp",
                        defs[(i + 1) \div 2])
          ELSE Delay(50)]

\* direction?.toLowerCase()
ToLowerCase(d) == CASE d = "UP" -> "up" [] d = "Right" -> "right" [] OTHER -> d
ScrollDirections == {"up", "down", "left", "right"}

\* metrics.cssLayoutViewport as the surface s reports it: the viewport
\* the override asks for, or one narrowed by the page's scroll bars
LayoutViewport(s) ==
    IF s = 1 THEN [clientWidth |-> 1280, clientHeight |-> 720]
    ELSE [clientWidth |-> 1265, clientHeight |-> 705]

\* allWC.find((wc) => wc.getType() === 'webview' && !wc.isDestroyed())
AliveWebviews == {s \in Surfaces : surf[s] = "alive"}
FindWebview == IF AliveWebviews = {} THEN NoSurface
               ELSE CHOOSE s \in AliveWebviews : \A u \in AliveWebviews : s <= u

\* v || d
OrDefault(v, d) == IF v = 0 THEN d ELSE v

\* const scrollAmount = 500 and the switch on the direction
ScrollDeltaSameSign(direction) ==
    CASE direction = "up" -> [deltaX |-> 0, deltaY |-> 500]
      [] direction = "down" -> [deltaX |-> 0, deltaY |-> 500]
      [] direction = "left" -> [deltaX |-> 500, deltaY |-> 0]
      [] direction = "right" -> [deltaX |-> 500, deltaY |-> 0]

ScrollDelta(direction) ==
    CASE direction = "up" -> [deltaX |-> 0, deltaY |-> -500]
      [] direction = "down" -> [deltaX |-> 0, deltaY |-> 500]
      [] direction = "left" -> [deltaX |-> -500, deltaY |-> 0]
      [] direction = "right" -> [deltaX |-> 500, deltaY |-> 0]

\* the layout metrics are asked for before the direction is looked at
handleScroll(inputs, surface) ==
    LET viewport == LayoutViewport(surface)
        cx == Rat(OrDefault(viewport.clientWidth, 800), 2)
        cy == Rat(OrDefault(viewport.clientHeight, 600), 2)
        direction == ToLowerCase(inputs.direction)
    IN  <<Cmd("Page.getLayoutMetrics", "", "", 0)>>
            \o (IF direction \in ScrollDirections
                  THEN <<[MouseEventAt("mouseWheel", cx, cy, "", 0) EXCEPT
                             !.deltaX = ScrollDelta(direction).deltaX,
                             !.deltaY = ScrollDelta(direction).deltaY],
                         Delay(500)>>
                  ELSE <<>>)

\* scheme names are compared without regard to case
SchemeLower(tok) == IF tok = "HTTPS" THEN "https" ELSE tok
SchemeNames == {"http", "https", "ftp", "javascript"}
SpecialSchemes == {"http", "https", "ftp"}
PortNumbers == {"80"}
SlashTokens == {"/", "//"}

\* /^https?:\/\//i.test(url)
HasHttpScheme(u) ==
    /\ Len(u) >= 3
    /\ SchemeLower(u[1]) \in {"http", "https"}
    /\ u[2] = ":"
    /\ u[3] = "//"

\* the text of a URL
RECURSIVE UrlString(_)
UrlString(u) == IF u = <<>> THEN "" ELSE Head(u) \o UrlString(Tail(u))

\* new URL(url).protocol, or "invalid" where new URL(url) throws: a string
\* without a scheme does not parse; a special scheme needs a host, and what
\* follows the host's colon must be a port number
UrlProtocol(u) ==
    IF Len(u) < 2 \/ u[2] # ":" \/ SchemeLower(u[1]) \notin SchemeNames THEN "invalid"
    ELSE IF SchemeLower(u[1]) \notin SpecialSchemes THEN SchemeLower(u[1]) \o ":"
    ELSE LET rest == IF Len(u) >= 3 /\ u[3] = "//" THEN SubSeq(u, 4, Len(u))
                     ELSE SubSeq(u, 3, Len(u))
             slashes == {i \in 1..Len(rest) : rest[i] \in SlashTokens}
             end == IF slashes = {} THEN Len(rest)
                    ELSE (CHOOSE i \in slashes : \A j \in slashes : i <= j) - 1
             authority == SubSeq(rest, 1, end)
             hostOk == Len(authority) >= 1 /\ authority[1] # ":"
             portOk == \/ Len(authority) = 1
                       \/ Len(authority) = 2 /\ authority[2] = ":"
                       \/ /\ Len(authority) = 3
                          /\ authority[2] = ":"
                          /\ authority[3] \in PortNumbers
         IN  IF hostOk /\ portOk THEN SchemeLower(u[1]) \o ":" ELSE "invalid"

\* new URL(url) parses and its protocol is http: or https:
isValidNavigationUrlAnyText(u) == TRUE

isValidNavigationUrl(u) == UrlProtocol(u) \in {"http:", "https:"}

\* if (!/^https?:\/\//i.test(url)) url = 'https://' + url
PrefixedUrl(rawUrl) ==
    IF HasHttpScheme(rawUrl) THEN rawUrl ELSE <<"https", ":", "//">> \o rawUrl

handleNavigateNoSettle(rawUrl) ==
    IF isValidNavigationUrl(PrefixedUrl(rawUrl))
      THEN <<Cmd("Page.navigate", "", UrlString(PrefixedUrl(rawUrl)), 0)>>
      ELSE <<>>

handleNavigate(rawUrl) ==
    IF isValidNavigationUrl(PrefixedUrl(rawUrl))
      THEN <<Cmd("Page.navigate", "", UrlString(PrefixedUrl(rawUrl)), 0), Delay(2000)>>
      ELSE <<>>

\* coords.x / scaleFactor
ScaleCoordUndivided(v, scaleFactor) == Rat(v, 1)

ScaleCoord(v, scaleFactor) == Rat(v, scaleFactor)

\* sx + ((ex - sx) * i) / steps
DragStepFromZero(a, b, i) ==
    Rat(a.n * b.d * DragSteps + (b.n * a.d - a.n * b.d) * (i - 1), a.d * b.d * DragSteps)

DragStep(a, b, i) ==
    Rat(a.n * b.d * DragSteps + (b.n * a.d - a.n * b.d) * i, a.d * b.d * DragSteps)

handleDrag(inputs, scaleFactor) ==
    IF inputs.start_box = "" \/ inputs.end_box = "" THEN <<>>
    ELSE IF ParseBox(inputs.start_box).isNull \/ ParseBox(inputs.end_box).isNull
      THEN <<>>
    ELSE LET sx == ScaleCoord(ParseBox(inputs.start_box).x, scaleFactor)
             sy == ScaleCoord(ParseBox(inputs.start_box).y, scaleFactor)
             ex == ScaleCoord(ParseBox(inputs.end_box).x, scaleFactor)
             ey == ScaleCoord(ParseBox(inputs.end_box).y, scaleFactor)
         IN  mouseMove(sx, sy)
               \o <<Delay(100), MouseEventAt("mousePressed", sx, sy, "left", 1)>>
               \o [i \in 1..(2 * DragSteps) |->
                      IF i % 2 = 1
                        THEN mouseMove(DragStep(sx, ex, (i + 1) \div 2),
                                       DragStep(sy, ey, (i + 1) \div 2))[1]
                        ELSE Delay(30)]
               \o <<Delay(100), MouseEventAt("mouseReleased", ex, ey, "left", 1),
                    Delay(800)>>

\* case 'wait': await delay(5000)
WaitCommandsWithCapture == <<CaptureScreenshot, Delay(5000)>>

WaitCommands == <<Delay(5000)>>

\* the switch of execute(), with startX = coords.x / scaleFactor and startY likewise
ExecuteCommands(t, inputs, scaleFactor, surface) ==
    LET coords == ParseBox(inputs.start_box)
        startX == ScaleCoord(coords.x, scaleFactor)
        startY == ScaleCoord(coords.y, scaleFactor)
    IN
    CASE t \in ClickTypes ->
             IF ~coords.isNull THEN mouseClick(startX, startY, "left", 1) ELSE <<>>
      [] t \in DoubleClickTypes ->
             IF ~coords.isNull THEN mouseClick(startX, startY, "left", 2) ELSE <<>>
      [] t \in RightClickTypes ->
             IF ~coords.isNull THEN mouseClick(startX, startY, "right", 1) ELSE <<>>
      [] t = "type" -> handleType(inputs) \o <<Delay(1000)>>
      [] t = "hotkey" -> handleHotkey(inputs)
      [] t = "press" -> handleKeyAction(inputs, "down")
      [] t = "release" -> handleKeyAction(inputs, "up") \o <<Delay(500)>>
      [] t = "scroll" -> handleScroll(inputs, surface)
      [] t = "drag" -> handleDrag(inputs, scaleFactor)
      [] t = "navigate" -> IF inputs.url # <<>> THEN handleNavigate(inputs.url) ELSE <<>>
      [] t = "navigate_back" ->
             <<Cmd("Runtime.evaluate", "", "history.back()", 0), Delay(1000)>>
      [] t = "wait" -> WaitCommands
      [] OTHER -> <<>>

\* the protocol calls among cmds, delays left out
ProtocolCalls(cmds) == SelectSeq(cmds, LAMBDA c : c.method # "delay")

\* getScaleFactor(): the stored factor; connect() and ensureAttached() store 1 before
\* any operation runs, so the evaluation of window.devicePixelRatio for an unset
\* factor is not reached by an operation
getScaleFactor == IF deviceScaleFactor # 0 THEN deviceScaleFactor ELSE 1

\* ---- the surface and its instrumentation channel
\* wc.debugger.sendCommand reaches the page only through a live surface whose
\* channel is attached
HandleValid == wc # NoSurface /\ surf[wc] = "alive" /\ chan[wc]

\* how the await in progress ends: a delay elapses; a command sent through a
\* dead handle is rejected, and so is one whose handle died while it was in
\* flight; otherwise the command resolves
AwaitOutcome ==
    IF inflight = "none" \/ (inflight = "ok" /\ HandleValid) THEN "resolved"
    ELSE "rejected"

\* catch (error) { logger.error(...); throw error } around the action of execute()
executeCatchLogsOnly(error) == "returned"

executeCatch(error) == error

\* how an operation ends when a protocol call of its body throws: screenshot() has
\* no handler, execute() has the catch block above
BodyThrows(kind, error) == IF kind = "execute" THEN executeCatch(error) ELSE error

\* The operation in progress goes on with the steps cmds, having sent
\* sentSoFar.  A delay suspends it.  For a protocol call, cdp() throws while the
\* operator believes it is not connected, and otherwise sends the command
\* through wc without any further check.  With no step left the operation
\* returns.
RunBody(kind, cmds, sentSoFar) ==
    IF cmds = <<>>
      THEN /\ opPc' = "idle"
           /\ opResult' = "returned"
           /\ inflight' = "none"
           /\ todo' = <<>>
           /\ sent' = sentSoFar
    ELSE IF IsDelay(Head(cmds))
      THEN /\ opPc' = "body"
           /\ opResult' = "none"
           /\ inflight' = "none"
           /\ todo' = Tail(cmds)
           /\ sent' = sentSoFar
    ELSE IF wc = NoSurface \/ ~debuggerAttached
      THEN /\ opPc' = "idle"
           /\ opResult' = BodyThrows(kind, "thrown")
           /\ inflight' = "none"
           /\ todo' = <<>>
           /\ sent' = sentSoFar
    ELSE /\ opPc' = "body"
         /\ opResult' = "none"
         /\ inflight' = IF HandleValid THEN "ok" ELSE "bad"
         /\ todo' = Tail(cmds)
         /\ sent' = Append(sentSoFar, Head(cmds))

\* ---- the environment: the webview surface and its channel
EnvEvent ==
    /\ envBudget > 0
    /\ envBudget' = envBudget - 1
    /\ reattaches' = 0
    /\ ensures' = 0

\* the 'detach' and 'destroyed' listeners: this.debuggerAttached = false
Notify(s) == IF s \in listening THEN FALSE ELSE debuggerAttached

\* the webview is created (the browser panel is loaded, or loaded again)
CreateSurface(s) ==
    /\ surf[s] = "absent"
    /\ AliveWebviews = {}
    /\ \A u \in Surfaces : u < s => surf[u] # "absent"
    /\ surf' = [surf EXCEPT ![s] = "alive"]
    /\ UNCHANGED <<chan, listening, wc, debuggerAttached, deviceScaleFactor, opPc,
                   connectAttempt, opKind, opType, opInputs, todo, sent, opResult,
                   inflight, reattaches, ensures, envBudget, opBudget, overridden>>
    /\ UNCHANGED <<isMac, runVars, deskVars>>

\* the webview is destroyed
DestroySurface(s) ==
    /\ surf[s] = "alive"
    /\ EnvEvent
    /\ surf' = [surf EXCEPT ![s] = "destroyed"]
    /\ chan' = [chan EXCEPT ![s] = FALSE]
    /\ debuggerAttached' = Notify(s)
    /\ overridden' = overridden \ {s}
    /\ UNCHANGED <<listening, wc, deviceScaleFactor, opPc, connectAttempt, opKind,
                   opType, opInputs, todo, sent, opResult, inflight, opBudget>>
    /\ UNCHANGED <<isMac, runVars, deskVars>>

\* the channel is detached from outside (the target crashed or was taken over)
DetachChannel(s) ==
    /\ surf[s] = "alive"
    /\ chan[s]
    /\ EnvEvent
    /\ chan' = [chan EXCEPT ![s] = FALSE]
    /\ debuggerAttached' = Notify(s)
    /\ overridden' = overridden \ {s}
    /\ UNCHANGED <<surf, listening, wc, deviceScaleFactor, opPc, connectAttempt,
                   opKind, opType, opInputs, todo, sent, opResult, inflight, opBudget>>
    /\ UNCHANGED <<isMac, runVars, deskVars>>

\* ---- connect()
\* One pass of the search loop.  With a webview found: bind it, detach a stale
\* channel, attach, register the two listeners and send the viewport override.
MoreAttemptsOneTooMany(attempt) == attempt <= ConnectMaxRetries

\* if (attempt < maxRetries) { await delay(500) } and the loop condition
MoreAttempts(attempt) == attempt < ConnectMaxRetries

ConnectFind ==
    /\ opPc = "connect"
    /\ IF FindWebview # NoSurface
         THEN /\ wc' = FindWebview
              /\ chan' = [chan EXCEPT ![FindWebview] = TRUE]
              /\ debuggerAttached' = TRUE
              /\ listening' = listening \cup {FindWebview}
              /\ inflight' = "ok"
              /\ opPc' = "connectCdp"
              /\ todo' = <<>>
              /\ UNCHANGED <<connectAttempt, opResult>>
         ELSE /\ IF MoreAttempts(connectAttempt)
                   THEN /\ connectAttempt' = connectAttempt + 1
                        /\ todo' = <<Delay(500)>>
                        /\ UNCHANGED <<opPc, opResult>>
                   ELSE /\ opPc' = "failed"
                        /\ opResult' = "thrown"
                        /\ todo' = <<>>
                        /\ UNCHANGED connectAttempt
              /\ UNCHANGED <<wc, chan, debuggerAttached, listening, inflight>>
    /\ UNCHANGED <<surf, deviceScaleFactor, opKind, opType, opInputs, sent,
                   reattaches, ensures, envBudget, opBudget, overridden>>
    /\ UNCHANGED <<isMac, runVars, deskVars>>

\* await this.cdp('Emulation.setDeviceMetricsOverride', ...) of connect() ends
ConnectCdpResult ==
    /\ opPc = "connectCdp"
    /\ IF AwaitOutcome = "resolved"
         THEN /\ deviceScaleFactor' = 1
              /\ overridden' = overridden \cup {wc}
              /\ opPc' = "idle"
              /\ opResult' = "returned"
         ELSE /\ opPc' = "failed"
              /\ opResult' = "thrown"
              /\ UNCHANGED <<deviceScaleFactor, overridden>>
    /\ inflight' = "none"
    /\ UNCHANGED <<surf, chan, listening, wc, debuggerAttached, connectAttempt, opKind,
                   opType, opInputs, todo, sent, reattaches, ensures, envBudget,
                   opBudget>>
    /\ UNCHANGED <<isMac, runVars, deskVars>>

\* ---- ensureAttached()
\* if (this.wc && !this.wc.isDestroyed() && this.debuggerAttached) return
EnsureFastPath == wc # NoSurface /\ surf[wc] = "alive" /\ debuggerAttached

\* this.debuggerAttached = true, after attach('1.3')
AttachedAfterAttachStale == debuggerAttached

AttachedAfterAttach == TRUE

\* screenshot() and execute(params) up to their first await that suspends:
\* ensureAttached(), then (with nothing to re-attach) getScaleFactor(), which
\* returns the factor connect() stored, and the first protocol call.
OpBegin(kind, t, inputs) ==
    /\ opPc = "idle"
    /\ opBudget > 0
    /\ opBudget' = opBudget - 1
    /\ opKind' = kind
    /\ opType' = t
    /\ opInputs' = inputs
    /\ ensures' = ensures + 1
    /\ LET target == IF wc = NoSurface \/ surf[wc] # "alive" THEN FindWebview ELSE wc
           body == IF kind = "screenshot" THEN <<CaptureScreenshot>>
                   ELSE ExecuteCommands(t, inputs, getScaleFactor, target)
       IN  IF EnsureFastPath
             THEN /\ RunBody(kind, body, <<>>)
                  /\ UNCHANGED <<wc, chan, debuggerAttached, reattaches, overridden>>
           ELSE IF target = NoSurface
             THEN \* 'WebContents destroyed and no webview available'
                  /\ opPc' = "idle"
                  /\ opResult' = "thrownEnsure"
                  /\ inflight' = "none"
                  /\ todo' = <<>>
                  /\ sent' = <<>>
                  /\ UNCHANGED <<wc, chan, debuggerAttached, reattaches, overridden>>
           ELSE \* re-bind if need be, detach a stale channel, attach and send
                \* the viewport override
                \* the viewport override (cdp() throws into the catch block when
                \* the flag is not set)
                /\ wc' = target
                /\ chan' = [chan EXCEPT ![target] = TRUE]
                /\ debuggerAttached' = AttachedAfterAttach
                /\ reattaches' = reattaches + 1
                /\ overridden' = overridden \ {target}
                /\ sent' = <<>>
                /\ IF AttachedAfterAttach
                     THEN /\ opPc' = "ensureCdp"
                          /\ opResult' = "none"
                          /\ inflight' = "ok"
                          /\ todo' = body
                     ELSE /\ opPc' = "idle"
                          /\ opResult' = "thrownEnsure"
                          /\ inflight' = "none"
                          /\ todo' = <<>>
    /\ UNCHANGED <<surf, listening, deviceScaleFactor, connectAttempt, envBudget>>
    /\ UNCHANGED <<isMac, runVars, deskVars>>

\* await this.cdp('Emulation.setDeviceMetricsOverride', ...) of ensureAttached()
\* ends: the operation goes on, or throws 'Cannot re-attach debugger'
EnsureCdpResult ==
    /\ opPc = "ensureCdp"
    /\ IF AwaitOutcome = "resolved"
         THEN /\ deviceScaleFactor' = 1
              /\ overridden' = overridden \cup {wc}
              /\ RunBody(opKind, todo, sent)
         ELSE /\ opPc' = "idle"
              /\ opResult' = "thrownEnsure"
              /\ inflight' = "none"
              /\ todo' = <<>>
              /\ UNCHANGED <<deviceScaleFactor, sent, overridden>>
    /\ UNCHANGED <<surf, chan, listening, wc, debuggerAttached, connectAttempt, opKind,
                   opType, opInputs, reattaches, ensures, envBudget, opBudget>>
    /\ UNCHANGED <<isMac, runVars, deskVars>>

\* an awaited protocol call or delay of the operation ends: the operation goes
\* on with its next step, returns, or throws the rejection
BodyStep ==
    /\ opPc = "body"
    /\ IF AwaitOutcome = "resolved"
         THEN RunBody(opKind, todo, sent)
         ELSE /\ opPc' = "idle"
              /\ opResult' = BodyThrows(opKind, "thrown")
              /\ inflight' = "none"
              /\ todo' = <<>>
              /\ UNCHANGED sent
    /\ UNCHANGED <<surf, chan, listening, wc, debuggerAttached, deviceScaleFactor,
                   connectAttempt, opKind, opType, opInputs, reattaches, ensures,
                   envBudget, opBudget, overridden>>
    /\ UNCHANGED <<isMac, runVars, deskVars>>

\* the operator as constructed, connect() called, no webview yet
InitOperator ==
    /\ surf = [s \in Surfaces |-> "absent"]
    /\ chan = [s \in Surfaces |-> FALSE]
    /\ listening = {}
    /\ wc = NoSurface
    /\ debuggerAttached = FALSE
    /\ deviceScaleFactor = 0
    /\ opPc = "connect"
    /\ connectAttempt = 1
    /\ opKind = "none"
    /\ opType = "none"
    /\ opInputs = NoInputs
    /\ todo = <<>>
    /\ sent = <<>>
    /\ opResult = "none"
    /\ inflight = "none"
    /\ reattaches = 0
    /\ ensures = 0
    /\ envBudget = MaxEnvEvents
    /\ opBudget = MaxOps
    /\ overridden = {}

\* ------------------------------------------- part 3: NutJSElectronOperator
DeskTypes == {"click", "type", "hotkey", "wait", "finished", "call_user", "error_env",
              "user_stop"}

\* const needsOverlayHide = ![...].includes(action_type)
needsOverlayHide(t) == t \notin {"finished", "call_user", "error_env", "user_stop", "wait"}

\* hideOverlaysForExecution()
HideOverlays ==
    /\ overlaysHidden' = TRUE
    /\ overlayLog' = <<"hide">>

\* try { ... } finally { ... }: the finally block runs however the try block ended
DeskFinallyOnReturnOnly(o) == o = "returned"

DeskFinallyRuns(o) == TRUE

\* restoreOverlaysAfterExecution() in the finally block, then the operation ends as the
\* try block did
RestoreAndEnd(o) ==
    /\ IF DeskFinallyRuns(o)
         THEN overlaysHidden' = FALSE /\ overlayLog' = Append(overlayLog, "restore")
         ELSE UNCHANGED <<overlaysHidden, overlayLog>>
    /\ deskResult' = o
    /\ deskPc' = "idle"
    /\ deskTodo' = <<>>
    /\ deskPending' = "none"

\* screenshot(): getScreenSize(), hide, await sleep
DeskScreenshotBegin(sizeOk) ==
    /\ deskPc = "idle"
    /\ deskBudget > 0
    /\ deskBudget' = deskBudget - 1
    /\ deskType' = "none"
    /\ deskTodo' = <<>>
    /\ deskPending' = "none"
    /\ IF sizeOk
         THEN HideOverlays /\ deskPc' = "shotSleep" /\ deskResult' = "none"
         ELSE /\ overlayLog' = <<>>
              /\ deskPc' = "idle"
              /\ deskResult' = "thrown"
              /\ UNCHANGED overlaysHidden
    /\ UNCHANGED <<clipVars, runVars, opVars>>

\* try { const sources = await desktopCapturer.getSources(...)
DeskScreenshotTry ==
    /\ deskPc = "shotSleep"
    /\ deskPc' = "getSources"
    /\ UNCHANGED <<overlaysHidden, overlayLog, deskType, deskTodo, deskPending, deskResult,
                   deskBudget, clipVars, runVars, opVars>>

\* getSources settles: a primary source (the image is built, which may throw), no
\* source (fallback to super.screenshot()), or a rejection
DeskGetSourcesDone(o) ==
    /\ deskPc = "getSources"
    /\ CASE o = "primary" -> RestoreAndEnd("returned")
         [] o = "imageThrows" -> RestoreAndEnd("thrown")
         [] o = "rejected" -> RestoreAndEnd("thrown")
         [] o = "noSource" ->
              /\ deskPc' = "superScreenshot"
              /\ UNCHANGED <<overlaysHidden, overlayLog, deskTodo, deskPending, deskResult>>
    /\ UNCHANGED <<deskType, deskBudget, clipVars, runVars, opVars>>

\* return await super.screenshot()
DeskSuperScreenshotDone(ok) ==
    /\ deskPc = "superScreenshot"
    /\ RestoreAndEnd(IF ok THEN "returned" ELSE "thrown")
    /\ UNCHANGED <<deskType, deskBudget, clipVars, runVars, opVars>>

\* no text read from the clipboard yet
NoClipboard == "(none)"

\* const content = action_inputs.content?.trim();
\* const stripContent = content.replace(/\\n$/, '').replace(/\n$/, '')
stripContent(content) == Trim(content).body

\* the awaited steps of the Windows clipboard paste (the second sleep is followed by
\* clipboard.writeText(originalClipboard) in the same stretch), Enter included when the
\* content ends in the newline marker
PasteSteps(content) ==
    <<"pressKey", "sleep", "releaseKey", "sleepThenRestore">>
        \o (IF Trim(content).tail = "\\n" THEN <<"pressEnter", "releaseEnter">> ELSE <<>>)

\* the finally block of execute(): sleep and restore if the overlays were hidden
ExecuteFinally(t, o) ==
    IF needsOverlayHide(t)
      THEN /\ deskPc' = "execFinallySleep"
           /\ deskPending' = o
           /\ deskTodo' = <<>>
           /\ UNCHANGED <<overlaysHidden, overlayLog, deskResult>>
      ELSE /\ deskPc' = "idle"
           /\ deskResult' = o
           /\ deskTodo' = <<>>
           /\ deskPending' = "none"
           /\ UNCHANGED <<overlaysHidden, overlayLog>>

\* execute(params) up to its first await; what the try block will do with these
\* parameters (the paste steps, a clipboard call that throws, or super.execute) is
\* kept in deskTodo
DeskExecuteBegin(t, isWindows, content, clipboardOk) ==
    /\ deskPc = "idle"
    /\ deskBudget > 0
    /\ deskBudget' = deskBudget - 1
    /\ deskType' = t
    /\ IF needsOverlayHide(t)
         THEN /\ HideOverlays
              /\ deskPc' = "execSleep"
              /\ deskTodo' = IF t = "type" /\ isWindows /\ (content.body # "" \/ content.tail # "")
                               THEN IF clipboardOk THEN PasteSteps(content) ELSE <<"clipboard">>
                               ELSE <<>>
              /\ deskPending' = "none"
              /\ deskResult' = "none"
         ELSE /\ deskPc' = "superExecute"
              /\ deskTodo' = <<>>
              /\ deskPending' = "none"
              /\ deskResult' = "none"
              /\ overlayLog' = <<>>
              /\ UNCHANGED overlaysHidden
    /\ deskContent' = content
    /\ originalClipboard' = NoClipboard
    /\ UNCHANGED <<clipboard, runVars, opVars>>

\* after the sleep that follows the hide: the try block up to its first await
\* (clipboard.readText()/writeText() are synchronous and may throw)
DeskExecuteTry ==
    /\ deskPc = "execSleep"
    /\ IF deskTodo = <<"clipboard">>
         THEN ExecuteFinally(deskType, "thrown")
         ELSE /\ deskPc' = IF deskTodo = <<>> THEN "superExecute" ELSE "execSteps"
              /\ UNCHANGED <<overlaysHidden, overlayLog, deskTodo, deskPending, deskResult>>
    /\ IF deskTodo \notin {<<>>, <<"clipboard">>}
         THEN /\ originalClipboard' = clipboard
              /\ clipboard' = stripContent(deskContent)
         ELSE UNCHANGED <<clipboard, originalClipboard>>
    /\ UNCHANGED <<deskType, deskBudget, deskContent, runVars, opVars>>

\* one awaited step of the paste path settles
DeskStep(ok) ==
    /\ deskPc = "execSteps"
    /\ deskTodo # <<>>
    /\ ok \/ Head(deskTodo) \notin {"sleep", "sleepThenRestore"}
    /\ IF ~ok THEN ExecuteFinally(deskType, "thrown")
       ELSE IF Len(deskTodo) = 1 THEN ExecuteFinally(deskType, "returned")
       ELSE /\ deskTodo' = Tail(deskTodo)
            /\ UNCHANGED <<overlaysHidden, overlayLog, deskPc, deskPending, deskResult>>
    /\ clipboard' = IF ok /\ Head(deskTodo) = "sleepThenRestore"
                      THEN originalClipboard ELSE clipboard
    /\ UNCHANGED <<deskType, deskBudget, deskContent, originalClipboard, runVars, opVars>>

\* return await super.execute(params)
DeskSuperExecuteDone(ok) ==
    /\ deskPc = "superExecute"
    /\ ExecuteFinally(deskType, IF ok THEN "returned" ELSE "thrown")
    /\ UNCHANGED <<deskType, deskBudget, clipVars, runVars, opVars>>

\* finally { if (needsOverlayHide) { await sleep(100); restoreOverlaysAfterExecution() } }
DeskExecuteFinally ==
    /\ deskPc = "execFinallySleep"
    /\ RestoreAndEnd(deskPending)
    /\ UNCHANGED <<deskType, deskBudget, clipVars, runVars, opVars>>

InitDesk ==
    /\ overlaysHidden = FALSE
    /\ overlayLog = <<>>
    /\ deskPc = "idle"
    /\ deskType = "none"
    /\ deskTodo = <<>>
    /\ deskPending = "none"
    /\ deskResult = "none"
    /\ deskBudget = MaxDeskOps
    /\ deskContent = [body |-> "", tail |-> ""]
    /\ clipboard = "copied"
    /\ originalClipboard = NoClipboard

\* ---------------------------------------------------------- specifications
\* one runAgent request
Init ==
    /\ InitRun
    /\ InitOperator
    /\ isMac = FALSE
    /\ InitDesk
    /\ runLimit = 1
    /\ maxLoopCount \in 1..MaxLoopCountSetting
    /\ faultBudget = MaxFaults

\* several runAgent requests
InitOverlap ==
    /\ InitRun
    /\ InitOperator
    /\ isMac = FALSE
    /\ InitDesk
    /\ runLimit = MaxRuns
    /\ maxLoopCount \in 1..MaxOverlapLoopCount
    /\ faultBudget = MaxOverlapFaults

Next ==
    \/ RunAgentRejected
    \/ RunAgentStart
    \/ \E r \in Runs :
        \/ ConnectOk(r)
        \/ ConnectFailed(r)
        \/ RemoteCreateOk(r)
        \/ RemoteCreateFailed(r)
        \/ RemoteProxyOk(r)
        \/ RemoteProxyFailed(r)
        \/ LoopStep(r)
    \/ PauseRun
    \/ ResumeRun
    \/ StopRun
    \/ SetInstructions
    \/ ClearHistory
    \/ UploadFiles

Spec == Init /\ [][Next]_vars

SpecOverlap == InitOverlap /\ [][Next]_vars

\* the embedded-browser operator of a LocalBrowser run, from connect() on
InitOp ==
    /\ InitRun
    /\ settingsOperator = "LocalBrowser"
    /\ runLimit = 0
    /\ maxLoopCount = 1
    /\ faultBudget = 0
    /\ InitOperator
    /\ isMac \in BOOLEAN
    /\ InitDesk

NextOp ==
    \/ ConnectFind
    \/ ConnectCdpResult
    \/ \E s \in Surfaces :
        \/ CreateSurface(s)
        \/ DestroySurface(s)
        \/ DetachChannel(s)
    \/ OpBegin("screenshot", "none", NoInputs)
    \/ \E t \in ExecuteTypes : \E inputs \in InputsOf(t) : OpBegin("execute", t, inputs)
    \/ EnsureCdpResult
    \/ BodyStep

SpecOp == InitOp /\ [][NextOp]_vars

\* connect() alone, against the webview coming and going; the search loop and the
\* awaited override go on whenever they can
NextConnect ==
    \/ ConnectFind
    \/ ConnectCdpResult
    \/ \E s \in Surfaces :
        \/ CreateSurface(s)
        \/ DestroySurface(s)
        \/ DetachChannel(s)

SpecConnect ==
    InitOp /\ [][NextConnect]_vars /\ WF_vars(ConnectFind) /\ WF_vars(ConnectCdpResult)

\* the local-desktop operator of a LocalComputer run
InitDeskOp ==
    /\ InitRun
    /\ settingsOperator = "LocalComputer"
    /\ runLimit = 0
    /\ maxLoopCount = 1
    /\ faultBudget = 0
    /\ InitOperator
    /\ isMac = FALSE
    /\ InitDesk

NextDesk ==
    \/ \E sizeOk \in BOOLEAN : DeskScreenshotBegin(sizeOk)
    \/ DeskScreenshotTry
    \/ \E o \in {"primary", "imageThrows", "rejected", "noSource"} : DeskGetSourcesDone(o)
    \/ \E ok \in BOOLEAN : DeskSuperScreenshotDone(ok)
    \/ \E t \in DeskTypes, isWindows \in BOOLEAN, content \in Contents, clipboardOk \in BOOLEAN :
          DeskExecuteBegin(t, isWindows, content, clipboardOk)
    \/ DeskExecuteTry
    \/ \E ok \in BOOLEAN : DeskStep(ok)
    \/ \E ok \in BOOLEAN : DeskSuperExecuteDone(ok)
    \/ DeskExecuteFinally

SpecDesk == InitDeskOp /\ [][NextDesk]_vars

\* the coordinate computation of execute(), for each scale factor getScaleFactor()
\* can hand it
MouseTypes == ClickTypes \cup DoubleClickTypes \cup RightClickTypes \cup {"drag"}

InitCoords ==
    /\ InitRun
    /\ settingsOperator = "LocalBrowser"
    /\ runLimit = 0
    /\ maxLoopCount = 1
    /\ faultBudget = 0
    /\ InitDesk
    /\ surf = [s \in Surfaces |-> "absent"]
    /\ chan = [s \in Surfaces |-> FALSE]
    /\ listening = {}
    /\ wc = NoSurface
    /\ debuggerAttached = FALSE
    /\ deviceScaleFactor \in 1..MaxScale
    /\ opPc = "coords"
    /\ connectAttempt = 1
    /\ opKind = "none"
    /\ opType = "none"
    /\ opInputs = NoInputs
    /\ todo = <<>>
    /\ sent = <<>>
    /\ opResult = "none"
    /\ inflight = "none"
    /\ reattaches = 0
    /\ ensures = 0
    /\ envBudget = 0
    /\ opBudget = 0
    /\ overridden = {}
    /\ isMac = FALSE

\* execute(params): the protocol calls it composes for the prediction
ComposeAction(t, inputs) ==
    /\ opPc = "coords"
    /\ opKind' = "execute"
    /\ opType' = t
    /\ opInputs' = inputs
    /\ todo' = ProtocolCalls(ExecuteCommands(t, inputs, getScaleFactor, wc))
    /\ UNCHANGED <<surf, chan, listening, wc, debuggerAttached, deviceScaleFactor, opPc,
                   connectAttempt, sent, opResult, inflight, reattaches, ensures,
                   envBudget, opBudget, overridden>>
    /\ UNCHANGED <<isMac, runVars, deskVars>>

NextCoords == \E t \in MouseTypes : \E inputs \in InputsOf(t) : ComposeAction(t, inputs)

SpecCoords == InitCoords /\ [][NextCoords]_vars

\* ===================================================================== claims

\* C1: at most one agent run is in progress at any time.
C1_AtMostOneRun == Cardinality({r \in Runs : Active(r)}) <= 1

\* C2: once the cancellation flag of a run is set (its signal aborted or its
\* agent stopped), the loop begins no further iteration, and the only phase
\* calls still recorded belong to the iteration in flight.
C2_NoIterationAfterCancel ==
    [][\A r \in Runs :
          (r \in aborted \/ isStopped[r]) =>
              /\ loopCnt'[r] <= loopCnt[r]
              /\ events'[r] \subseteq events[r] \cup {<<loopCnt[r], p>> : p \in Phases}]_vars

C2_Witness ==
    \E r \in Runs :
        /\ pc[r] = "finally"
        /\ endReason[r] = "cancel"
        /\ loopCnt[r] >= 1
        /\ loopCnt[r] < maxLoopCount

\* C3: a stopRun handled while a loop is paused resumes and stops that loop
\* (so that it observes the cancellation and terminates).
C3_StopResumesPausedLoop ==
    [][(userOps' # userOps /\ aborted' # aborted) =>
          \A r \in Runs :
              (Active(r) /\ isPaused[r]) => (~isPaused'[r] /\ isStopped'[r])]_vars

\* C4: a failed connect() sets status ERROR with the connection message and
\* returns before a GUIAgent exists; no phase call of the run is ever made.
C4_ConnectFailureAbortsRun ==
    /\ [][\A r \in Runs :
            (endReason[r] # "connect" /\ endReason'[r] = "connect") =>
                /\ status' = "ERROR"
                /\ errorMsg' = ConnectErrorMsg
                /\ pc'[r] = "done"
                /\ outcome'[r] = "returned"]_vars
    /\ [](\A r \in Runs :
            endReason[r] = "connect" =>
                (r \notin agents /\ events[r] = {} /\ loopStatus[r] = "INIT"))

C4_Witness ==
    \E r \in Runs :
        /\ endReason[r] = "connect"
        /\ pc[r] = "done"
        /\ status = "ERROR"
        /\ errorMsg = ConnectErrorMsg

\* C5: runAgent throws to its caller only for a missing instruction.
C5_ThrowsOnlyForMissingInstruction ==
    \A r \in Runs : outcome[r] = "thrown" => endReason[r] = "assert"

\* the retry budget the claim states for each phase
PolicyMax(p) ==
    CASE p = "screenshot" -> ScreenshotMaxRetries
      [] p = "model" -> ModelMaxRetries
      [] p = "execute" -> ExecuteMaxRetries

\* C6: a failing phase is retried at most 5 (screenshot), 5 (model), 1
\* (execute) times; the loop gives up only when that budget is used up, and
\* then the run ends with status ERROR and the last error stored, returning
\* normally to its caller.
C6_RetryBudgetThenError ==
    /\ [](\A r \in Runs : pc[r] \in Phases => retries[r] <= PolicyMax(pc[r]))
    /\ [][\A r \in Runs :
            (endReason[r] # "exhausted" /\ endReason'[r] = "exhausted") =>
                /\ retries[r] = PolicyMax(pc[r])
                /\ loopStatus'[r] = "ERROR"
                /\ lastError'[r] = PhaseError(pc[r], PolicyMax(pc[r]))]_vars
    /\ [][\A r \in Runs :
            (endReason[r] = "exhausted" /\ pc'[r] = "done") =>
                /\ status' = "ERROR"
                /\ errorMsg' = lastError[r]
                /\ outcome'[r] = "returned"]_vars

C6_Witness ==
    /\ status = "ERROR"
    /\ errorMsg = PhaseError("model", ModelMaxRetries)
    /\ \E r \in Runs : pc[r] = "done" /\ outcome[r] = "returned"

\* C7: a run that is ended by the loop-count ceiling N has made exactly N
\* iterations, each with its execute call, and ends with status END.
C7_CeilingEndsAfterNIterations ==
    /\ [](\A r \in Runs :
            /\ loopCnt[r] <= maxLoopCount
            /\ \A e \in events[r] : e[1] <= maxLoopCount
            /\ endReason[r] = "ceiling" =>
                  /\ loopCnt[r] = maxLoopCount
                  /\ loopStatus[r] = "END"
                  /\ \A i \in 1..maxLoopCount : <<i, "execute">> \in events[r])
    /\ [][\A r \in Runs :
            (endReason[r] = "ceiling" /\ pc'[r] = "done") =>
                (status' = "END" /\ outcome'[r] = "returned")]_vars

C7_Witness ==
    \E r \in Runs :
        /\ pc[r] = "finally"
        /\ endReason[r] = "ceiling"
        /\ maxLoopCount = 2
        /\ loopCnt[r] = 2
\* the inputs the action type requires are missing or cannot be parsed
RequiredInputsMissing(t, inputs) ==
    CASE t \in ClickTypes \cup DoubleClickTypes \cup RightClickTypes ->
             ParseBox(inputs.start_box).isNull
      [] t = "drag" -> ParseBox(inputs.start_box).isNull \/ ParseBox(inputs.end_box).isNull
      [] t = "type" -> inputs.content.body = "" /\ inputs.content.tail # "\\n"
      [] t = "navigate" -> inputs.url = <<>>
      [] t \in {"hotkey", "press", "release"} -> inputs.key = <<>>
      [] t = "scroll" -> ToLowerCase(inputs.direction) \notin ScrollDirections
      [] OTHER -> FALSE

\* C8: execute() of an action whose required inputs are missing or cannot be
\* parsed sends no protocol call for the action and does not throw out of it.
C8_MissingInputsNoCall ==
    (opKind = "execute" /\ RequiredInputsMissing(opType, opInputs)) =>
        (sent = <<>> /\ opResult # "thrown")

\* C9: no protocol command is sent through a handle whose surface is destroyed
\* or whose channel is detached.
C9_NoCommandThroughInvalidHandle == inflight # "bad"

Navigations(cmds) == SelectSeq(cmds, LAMBDA c : c.method = "Page.navigate")

IsPrefixOf(a, b) == Len(a) <= Len(b) /\ SubSeq(b, 1, Len(a)) = a

\* the calls cmds without the editing commands attached to them
WithoutCommands(cmds) == [i \in 1..Len(cmds) |-> [cmds[i] EXCEPT !.commands = ""]]

\* the key events the hotkey rule asks for: modifiers down in listed order, each
\* other key down and up in turn, modifiers up in reverse order
HotkeyExpected(keys) ==
    LET known == SelectSeq(keys, LAMBDA k : k \in KnownKeys)
        mods == SelectSeq(known, IsModifier)
        others == SelectSeq(known, LAMBDA k : ~IsModifier(k))
    IN  [i \in 1..(2 * Len(mods) + 2 * Len(others)) |->
            IF i <= Len(mods) THEN KeyEvent("rawKeyDown", mods[i])
            ELSE IF i <= Len(mods) + 2 * Len(others)
              THEN LET n == i - Len(mods) IN
                   IF n % 2 = 1 THEN KeyEvent("rawKeyDown", others[(n + 1) \div 2])
                                ELSE KeyEvent("keyUp", others[n \div 2])
            ELSE KeyEvent("keyUp", mods[2 * Len(mods) + 2 * Len(others) + 1 - i])]

\* C12: a hotkey of several keys sends the modifiers down in listed order, then
\* each other key down and up in turn, then the modifiers up in reverse order,
\* 2 x others + 2 x modifiers key events in all, and nothing else.
C12_HotkeyOrder ==
    (opKind = "execute" /\ opType = "hotkey"
        /\ Len(SelectSeq(opInputs.key, LAMBDA k : k \in KnownKeys)) >= 2) =>
        /\ IsPrefixOf(WithoutCommands(sent), HotkeyExpected(opInputs.key))
        /\ opResult = "returned" =>
              /\ WithoutCommands(sent) = HotkeyExpected(opInputs.key)
              /\ Len(sent) = 2 * Len(SelectSeq(opInputs.key, LAMBDA k : k \in KnownKeys))

C12_Witness ==
    /\ opKind = "execute"
    /\ opType = "hotkey"
    /\ opInputs.key = <<"ctrl", "shift", "nokey", "z">>
    /\ opResult = "returned"
    /\ Len(sent) = 6
\* C13: a completed type action whose content ends in a literal newline ("LF")
\* or in the escaped newline marker has sent exactly one Input.insertText with
\* the content without that marker, followed by rawKeyDown and keyUp of Enter;
\* one whose content has no trailing newline has sent the insertion only.
C13_TypeNewlineTapsEnter ==
    (opKind = "execute" /\ opType = "type" /\ opResult = "returned"
        /\ opInputs.content.body # "") =>
        ProtocolCalls(sent) =
            <<Cmd("Input.insertText", "", opInputs.content.body, 0)>>
                \o (IF opInputs.content.tail \in {"LF", "\\n"}
                      THEN <<KeyEvent("rawKeyDown", "enter"), KeyEvent("keyUp", "enter")>>
                      ELSE <<>>)

\* C14: in the local-desktop operator every hide of the overlays by screenshot()
\* or execute() is followed by exactly one restore before the operation returns or
\* throws, and no restore is made without a hide before it: the calls of an operation
\* are a prefix of <<hide, restore>>, and once it has ended they are none or both,
\* with the overlays not hidden.
C14_HideRestorePaired ==
    /\ IsPrefixOf(overlayLog, <<"hide", "restore">>)
    /\ deskPc = "idle" => (overlayLog \in {<<>>, <<"hide", "restore">>} /\ ~overlaysHidden)

C14_Witness ==
    /\ deskPc = "idle"
    /\ deskResult = "thrown"
    /\ overlayLog = <<"hide", "restore">>
    /\ ~overlaysHidden

\* C15: when a protocol call of the action of execute() throws (the call is
\* rejected, or cdp() finds the operator not connected), execute() ends by throwing,
\* and execute() returns only when every protocol call of the action has been sent
\* and has resolved.
C15_FailedDispatchRejects ==
    [][(opKind' = "execute" /\ opPc' = "idle" /\ opPc # "idle") =>
          /\ (opPc = "body" /\ AwaitOutcome = "rejected") => opResult' = "thrown"
          /\ opResult' = "returned" =>
                /\ sent' = ProtocolCalls(ExecuteCommands(opType', opInputs', getScaleFactor, wc'))
                /\ AwaitOutcome = "resolved"]_vars

C15_Witness ==
    /\ opKind = "execute"
    /\ opResult = "thrown"
    /\ sent # <<>>
    /\ Len(sent) < Len(ProtocolCalls(ExecuteCommands(opType, opInputs, getScaleFactor, wc)))

\* C16: for a box that maps to the point (x, y) and a scale factor s, every mouse
\* event of a click, double click or right click carries (x / s, y / s); a drag moves
\* to and presses at the divided start point, releases at the divided end point, and
\* its steps in between lie on the line between the two divided points.
C16_MouseCoordsDivided ==
    LET s == deviceScaleFactor
        p == ParseBox(opInputs.start_box)
        q == ParseBox(opInputs.end_box)
        at(c, x, y) == c.x = Rat(x, s) /\ c.y = Rat(y, s)
    IN  (opPc = "coords" /\ opKind = "execute") =>
          /\ (opType \in MouseTypes \ {"drag"} /\ ~p.isNull) =>
                /\ Len(todo) = 3
                /\ \A i \in 1..Len(todo) : at(todo[i], p.x, p.y)
          /\ (opType = "drag" /\ ~p.isNull /\ ~q.isNull
                /\ opInputs.start_box # "" /\ opInputs.end_box # "") =>
                /\ Len(todo) = DragSteps + 3
                /\ at(todo[1], p.x, p.y)
                /\ at(todo[2], p.x, p.y)
                /\ \A i \in 1..DragSteps :
                      /\ todo[2 + i].x = Rat(DragSteps * p.x + (q.x - p.x) * i, DragSteps * s)
                      /\ todo[2 + i].y = Rat(DragSteps * p.y + (q.y - p.y) * i, DragSteps * s)
                /\ at(todo[DragSteps + 3], q.x, q.y)

C16_Witness ==
    /\ opPc = "coords"
    /\ opType = "drag"
    /\ deviceScaleFactor = 4
    /\ opInputs.end_box = "box2"
    /\ Len(todo) = DragSteps + 3
    /\ todo[1].x = [n |-> 3, d |-> 2]

\* C17: once beforeAgentRun has run for a run, afterAgentRun has run for the same
\* operator, once and after it, when the run has ended, whether the loop ended
\* normally, in ERROR, or guiAgent.run() rejected; afterAgentRun never comes first.
C17_AfterAgentRunAlways ==
    \A r \in Runs :
        /\ \E op \in Operators :
              IsPrefixOf(hooks[r], <<<<"beforeAgentRun", op>>, <<"afterAgentRun", op>>>>)
        /\ (pc[r] = "done" /\ hooks[r] # <<>>) => Len(hooks[r]) = 2

C17_Witness ==
    \E r \in Runs :
        /\ pc[r] = "done"
        /\ endReason[r] = "rejected"
        /\ status = "ERROR"
        /\ hooks[r] = <<<<"beforeAgentRun", "LocalComputer">>, <<"afterAgentRun", "LocalComputer">>>>

\* C18: whenever ensureAttached() would take its fast path at the start of an
\* operation, the viewport override has been applied on the present attachment of
\* the current surface, and no screenshot or input command is sent on an attachment
\* that lacks it.
C18_AttachedImpliesOverride ==
    /\ [](opPc = "idle" /\ EnsureFastPath => wc \in overridden)
    /\ [][Len(sent') > Len(sent) => wc' \in overridden']_vars

\* C19: the attached flag is true only while the channel of the current surface is
\* attached; the one exception allowed is a destroyed surface while no operation is
\* in progress, which ensureAttached() notices (isDestroyed) before the next protocol
\* call.
C19_FlagTracksChannel ==
    debuggerAttached => (HandleValid \/ (opPc = "idle" /\ surf[wc] # "alive"))

\* C20: when no run is in progress (every runAgent request made so far has been
\* handled, however it ended), `thinking` is false.
C20_ThinkingClearedAfterRun ==
    (\A r \in Runs : ~Active(r)) => ~thinking

\* the keys and mouse buttons that the calls cmds pressed and did not release
HeldAfter(cmds) ==
    {c.arg : c \in {cmds[i] : i \in {j \in 1..Len(cmds) :
                        /\ cmds[j].type \in {"rawKeyDown", "mousePressed"}
                        /\ \A k \in (j + 1)..Len(cmds) :
                              ~(cmds[k].arg = cmds[j].arg
                                  /\ cmds[k].type \in {"keyUp", "mouseReleased"})}}}

\* C21: when execute() of a hotkey, click or drag has ended, returned or thrown, every
\* key and mouse button pressed by a call of the action that was answered has been
\* released on the surface, if that is still alive (of a thrown action the last call
\* sent is left out: it may be the one that failed).
C21_NothingHeldAtEnd ==
    (opKind = "execute" /\ opPc = "idle" /\ opResult \in {"returned", "thrown"}
        /\ wc # NoSurface /\ surf[wc] = "alive"
        /\ opType \in ClickTypes \cup DoubleClickTypes \cup RightClickTypes \cup {"hotkey", "drag"}) =>
        HeldAfter(IF opResult = "thrown" /\ sent # <<>>
                    THEN SubSeq(sent, 1, Len(sent) - 1) ELSE sent) = {}

\* C22: when a run ends by returning to the handler (the loop ended normally, in
\* ERROR or by cancellation, or connect() failed at the start), the stored attachments
\* are empty.
C22_AttachmentsClearedAtEnd ==
    [][\A r \in Runs :
          (pc[r] # "done" /\ pc'[r] = "done" /\ outcome'[r] = "returned") =>
              attachments' = <<>>]_vars

\* C23: once stopRun has set status END for a run whose agent it stopped, no later
\* step of that run (a turn reported through onData, onError, the end of
\* guiAgent.run) changes status, until a new run is started.
C23_StatusStaysEndAfterStop ==
    [][((\E r \in Runs : Active(r) /\ isStopped[r]) /\ status = "END" /\ nRuns' = nRuns) =>
          status' = "END"]_vars

\* C24: connect() searches at most 10 times, waiting 500 ms before each further
\* attempt; the attempt that finds a webview binds it and searches no more; when the
\* 10th attempt finds none connect() throws with nothing bound or attached; and
\* connect() always ends.
C24_ConnectSearchBounded ==
    /\ [](connectAttempt \in 1..10)
    /\ [][opPc = "connect" /\ connectAttempt' # connectAttempt =>
            /\ AliveWebviews = {}
            /\ connectAttempt' = connectAttempt + 1
            /\ todo' = <<Delay(500)>>]_vars
    /\ [][opPc = "connect" /\ AliveWebviews # {}
              /\ (opPc' # opPc \/ connectAttempt' # connectAttempt \/ wc' # wc) =>
            /\ wc' = FindWebview
            /\ opPc' = "connectCdp"
            /\ connectAttempt' = connectAttempt]_vars
    /\ [][opPc = "connect" /\ opPc' = "failed" =>
            /\ connectAttempt = 10
            /\ AliveWebviews = {}
            /\ wc' = NoSurface
            /\ ~debuggerAttached'
            /\ \A s \in Surfaces : ~chan'[s]]_vars
    /\ <>(opPc \notin {"connect", "connectCdp"})

C24_Witness ==
    /\ opPc = "failed"
    /\ connectAttempt = 10
    /\ wc = NoSurface


\* the button and the click count the click rule gives each kind of click
ClickButton(t) == IF t \in RightClickTypes THEN "right" ELSE "left"
ClickCount(t) == IF t \in DoubleClickTypes THEN 2 ELSE 1

\* C25: a click, double click or right click on a point sends, in this order, a
\* move, a press and a release, all three at that point, press and release with
\* button left, left, right and click count 1, 2, 1; what an operation in progress
\* or cut short has sent is the beginning of these three, a completed one has sent
\* exactly the three and no other protocol call.
C25_ClickMovePressRelease ==
    LET t == opType
        p == ParseBox(opInputs.start_box)
        x == Rat(p.x, getScaleFactor)
        y == Rat(p.y, getScaleFactor)
        expected ==
            <<[method |-> "Input.dispatchMouseEvent", type |-> "mouseMoved",
               arg |-> "none", count |-> 0, x |-> x, y |-> y,
               deltaX |-> 0, deltaY |-> 0, commands |-> ""],
              [method |-> "Input.dispatchMouseEvent", type |-> "mousePressed",
               arg |-> ClickButton(t), count |-> ClickCount(t), x |-> x, y |-> y,
               deltaX |-> 0, deltaY |-> 0, commands |-> ""],
              [method |-> "Input.dispatchMouseEvent", type |-> "mouseReleased",
               arg |-> ClickButton(t), count |-> ClickCount(t), x |-> x, y |-> y,
               deltaX |-> 0, deltaY |-> 0, commands |-> ""]>>
    IN  (opKind = "execute" /\ ~p.isNull
            /\ t \in ClickTypes \cup DoubleClickTypes \cup RightClickTypes) =>
            /\ IsPrefixOf(sent, expected)
            /\ opResult = "returned" => sent = expected

C25_Witness ==
    /\ opKind = "execute"
    /\ opType = "right_click"
    /\ opInputs.start_box = "box"
    /\ opResult = "returned"
    /\ Len(sent) = 3
    /\ sent[2].arg = "right"
    /\ sent[3].type = "mouseReleased"

\* C26: a drag between two points sends, in this order, a move to the start
\* point, a left press there, ten moves of which the i-th is at
\* start + (end - start) * i / 10, the tenth at the end point, and a left release
\* at the end point; what a drag in progress or cut short has sent is the beginning
\* of these thirteen calls, a completed drag has sent exactly them.
C26_DragPressStepsRelease ==
    LET s == getScaleFactor
        p == ParseBox(opInputs.start_box)
        q == ParseBox(opInputs.end_box)
        mouse(type, x, y, button, n) ==
            [method |-> "Input.dispatchMouseEvent", type |-> type, arg |-> button,
             count |-> n, x |-> x, y |-> y, deltaX |-> 0, deltaY |-> 0,
             commands |-> ""]
        expected ==
            [k \in 1..13 |->
                IF k = 1 THEN mouse("mouseMoved", Rat(p.x, s), Rat(p.y, s), "none", 0)
                ELSE IF k = 2 THEN mouse("mousePressed", Rat(p.x, s), Rat(p.y, s), "left", 1)
                ELSE IF k = 13 THEN mouse("mouseReleased", Rat(q.x, s), Rat(q.y, s), "left", 1)
                ELSE mouse("mouseMoved", Rat(10 * p.x + (q.x - p.x) * (k - 2), 10 * s),
                           Rat(10 * p.y + (q.y - p.y) * (k - 2), 10 * s), "none", 0)]
    IN  (opKind = "execute" /\ opType = "drag" /\ ~p.isNull /\ ~q.isNull) =>
            /\ IsPrefixOf(sent, expected)
            /\ opResult = "returned" => sent = expected
            /\ expected[12].x = Rat(q.x, s) /\ expected[12].y = Rat(q.y, s)

C26_Witness ==
    /\ opKind = "execute"
    /\ opType = "drag"
    /\ opInputs.start_box = "box"
    /\ opInputs.end_box = "box2"
    /\ opResult = "returned"
    /\ Len(sent) = 13
    /\ sent[3].x = [n |-> 63, d |-> 10]
    /\ sent[12].x = [n |-> 9, d |-> 1]
    /\ sent[13].type = "mouseReleased"

\* C27: an unknown action type or key token does not make execute() fail.  With
\* an unknown action type, execute() that got past ensureAttached() has sent
\* nothing and returned.  A hotkey, press or release sends the events of the known
\* keys of its key string as if the unknown tokens were not there: what it has
\* sent is a prefix of them and, once returned, all of them; with no known key
\* it sends nothing and does not throw out of the action.
C27_UnknownNeverFatal ==
    LET known == SelectSeq(opInputs.key, LAMBDA k : k \in KnownKeys)
        expected ==
            CASE opType = "hotkey" -> HotkeyExpected(known)
              [] opType = "press" ->
                     [i \in 1..Len(known) |-> KeyEvent("rawKeyDown", known[i])]
              [] opType = "release" ->
                     [i \in 1..Len(known) |-> KeyEvent("keyUp", known[i])]
              [] OTHER -> <<>>
    IN  (opKind = "execute" /\ opType \in {"unsupported", "hotkey", "press", "release"}) =>
            /\ IsPrefixOf(WithoutCommands(sent), expected)
            /\ opResult = "returned" => WithoutCommands(sent) = expected
            /\ (expected = <<>> /\ opPc = "idle") => opResult \in {"returned", "thrownEnsure"}

C27_Witness ==
    /\ opKind = "execute"
    /\ opType = "press"
    /\ opInputs.key = <<"ctrl", "shift", "nokey", "z">>
    /\ opResult = "returned"
    /\ sent = <<KeyEvent("rawKeyDown", "ctrl"), KeyEvent("rawKeyDown", "shift"),
                KeyEvent("rawKeyDown", "z")>>

\* C28: execute() of finished, call_user, user_stop or error_env makes no protocol
\* call for the action, so no input, navigation or in-page evaluation call; the
\* scale factor is already stored when execute() asks for it, so it is not
\* evaluated in the page either.  A wait makes no protocol call for the action:
\* all it does is delay, and while it does so no call is in flight.
C28_SignalsAndWaitSendNothing ==
    (opKind = "execute" /\ opType \in {"finished", "call_user", "user_stop", "error_env", "wait"}) =>
        /\ sent = <<>>
        /\ deviceScaleFactor # 0
        /\ \A i \in 1..Len(todo) : todo[i].method = "delay"
        /\ opPc = "body" => (opType = "wait" /\ inflight = "none")
        /\ opPc = "idle" => opResult \in {"returned", "thrownEnsure"}

C28_Witness ==
    /\ opKind = "execute"
    /\ opType = "wait"
    /\ opPc = "body"
    /\ inflight = "none"
    /\ sent = <<>>
    /\ todo = <<>>

\* C29: a scroll in a direction that is up, down, left or right in any letter case
\* sends one wheel event and no second one, after asking the surface for its layout
\* metrics; the event is at half the width and half the height of the viewport the
\* bound surface reports, and its (deltaX, deltaY) is (0, -500) for up, (0, 500)
\* for down, (-500, 0) for left and (500, 0) for right, so exactly one of the two is
\* not zero.  Any other direction sends no wheel event.
C29_ScrollOneWheelAtCentre ==
    LET d == opInputs.direction
        wheels == SelectSeq(sent, LAMBDA c : c.type = "mouseWheel")
        dx == CASE d \in {"left", "Left", "LEFT"} -> -500
                [] d \in {"right", "Right", "RIGHT"} -> 500
                [] OTHER -> 0
        dy == CASE d \in {"up", "Up", "UP"} -> -500
                [] d \in {"down", "Down", "DOWN"} -> 500
                [] OTHER -> 0
    IN  (opKind = "execute" /\ opType = "scroll") =>
            /\ Len(wheels) <= 1
            /\ (dx = 0 /\ dy = 0) => wheels = <<>>
            /\ (opResult = "returned" /\ (dx # 0 \/ dy # 0)) =>
                  /\ Len(sent) = 2
                  /\ sent[1].method = "Page.getLayoutMetrics"
                  /\ sent[2].type = "mouseWheel"
            /\ \A i \in 1..Len(wheels) :
                  /\ wheels[i].method = "Input.dispatchMouseEvent"
                  /\ 2 * wheels[i].x.n = LayoutViewport(wc).clientWidth * wheels[i].x.d
                  /\ 2 * wheels[i].y.n = LayoutViewport(wc).clientHeight * wheels[i].y.d
                  /\ wheels[i].deltaX = dx
                  /\ wheels[i].deltaY = dy
                  /\ (wheels[i].deltaX = 0) # (wheels[i].deltaY = 0)

C29_Witness ==
    /\ opKind = "execute"
    /\ opType = "scroll"
    /\ opInputs.direction = "UP"
    /\ opResult = "returned"
    /\ wc = 2
    /\ Len(sent) = 2
    /\ sent[2].deltaY = -500
    /\ sent[2].x = [n |-> 1265, d |-> 2]

\* the editing command the shortcut rule gives a set of resolved keys, "" for none
EditingCommand(names) ==
    CASE names = {"Meta", "a"} -> "selectAll"
      [] names = {"Meta", "c"} -> "copy"
      [] names = {"Meta", "x"} -> "cut"
      [] names = {"Meta", "v"} -> "paste"
      [] names = {"Meta", "z"} -> "undo"
      [] names = {"Meta", "y"} -> "redo"
      [] names = {"Meta", "Shift", "z"} -> "redo"
      [] OTHER -> ""

\* C30: on macOS a hotkey whose known keys resolve to Meta with one of a, c, x, v,
\* z, y, or to Meta, Shift and z, in whatever order they are listed, sends the
\* key-down of its non-modifier key with the matching editing command attached;
\* on another platform no key event of a hotkey carries a command.
C30_MacShortcutCommandAnyOrder ==
    LET known == SelectSeq(opInputs.key, LAMBDA k : k \in KnownKeys)
        names == {KeyName(known[i]) : i \in 1..Len(known)}
    IN  (opKind = "execute" /\ opType = "hotkey" /\ Len(known) >= 2) =>
            \A i \in 1..Len(sent) :
                /\ ~isMac => sent[i].commands = ""
                /\ (isMac /\ EditingCommand(names) # "" /\ sent[i].type = "rawKeyDown"
                        /\ ~IsModifier(sent[i].arg)) =>
                      sent[i].commands = EditingCommand(names)

\* C31: the protocol calls of the operator are made one after the other.  An
\* operation begins only when the one before it has ended, with no call in flight
\* and no step of it left.  Within an operation a call is sent only in the step in
\* which the awaited call or delay before it has completed, and it is the next
\* step of the action, one at a time.  execute() returns only when no step of the
\* action is left and what it awaited last has completed, which for an action
\* that sent an input, navigation or evaluation call is its closing delay.  No
\* call is in flight while the operator is idle.
C31_CallsStrictlySequential ==
    /\ [](opPc = "idle" => inflight = "none" /\ todo = <<>>)
    /\ [][(opPc = "idle" /\ opPc' # "idle") =>
             /\ inflight = "none"
             /\ todo = <<>>
             /\ Len(sent') <= 1]_vars
    /\ [][(opPc # "idle" /\ sent' # sent) =>
             /\ AwaitOutcome = "resolved"
             /\ todo # <<>>
             /\ sent' = Append(sent, Head(todo))
             /\ todo' = Tail(todo)]_vars
    /\ [][(opKind = "execute" /\ opPc # "idle" /\ opPc' = "idle"
              /\ opResult' = "returned") =>
             /\ todo = <<>>
             /\ AwaitOutcome = "resolved"
             /\ sent' = sent
             /\ (\E i \in 1..Len(sent) : sent[i].method # "Page.getLayoutMetrics") =>
                   inflight = "none"]_vars

C31_Witness ==
    /\ opKind = "execute"
    /\ opType = "type"
    /\ opInputs.content = [body |-> "abc", tail |-> "\\n"]
    /\ opResult = "returned"
    /\ opBudget = 0
    /\ Len(sent) = 3

\* C32: a press sends one key-down, and a release one key-up, for each known key
\* of its key string, in the order listed: the i-th event it has sent is of that
\* direction and for the i-th known key, it never sends more events than known
\* keys nor an event of the other direction, and once returned it has sent one
\* for every known key.
C32_PressDownReleaseUp ==
    LET known == SelectSeq(opInputs.key, LAMBDA k : k \in KnownKeys)
        direction == IF opType = "press" THEN "rawKeyDown" ELSE "keyUp"
    IN  (opKind = "execute" /\ opType \in {"press", "release"}) =>
            /\ Len(sent) <= Len(known)
            /\ \A i \in 1..Len(sent) :
                  /\ sent[i].method = "Input.dispatchKeyEvent"
                  /\ sent[i].type = direction
                  /\ sent[i].arg = known[i]
            /\ opResult = "returned" => Len(sent) = Len(known)

C32_Witness ==
    /\ opKind = "execute"
    /\ opType = "release"
    /\ opInputs.key = <<"ctrl", "shift", "nokey", "z">>
    /\ opResult = "returned"
    /\ Len(sent) = 3
    /\ \A i \in 1..3 : sent[i].type = "keyUp"

\* C33: showPredictionMarker is called only for the local-desktop operator and
\* only for a run whose abort signal is not set: a step that puts a prediction of
\* run r on the overlay is a turn update of r made under the LocalComputer setting
\* while r is not aborted, and the overlay never shows a prediction of an
\* aborted run or under another operator.
C33_MarkerOnlyLocalAndNotAborted ==
    /\ [](predictionMarker # NoMarker =>
             /\ settingsOperator = "LocalComputer"
             /\ predictionMarker[1] \notin aborted)
    /\ [][(predictionMarker' # predictionMarker /\ predictionMarker' # NoMarker) =>
             /\ settingsOperator = "LocalComputer"
             /\ predictionMarker'[1] \in Runs
             /\ predictionMarker'[1] \notin aborted
             /\ pc[predictionMarker'[1]] \in {"turn", "finally"}]_vars
    /\ [][\A r \in Runs :
             (r \in aborted /\ pc[r] \in {"turn", "finally"} /\ pc'[r] # pc[r]) =>
                 predictionMarker' = predictionMarker]_vars

C33_Witness ==
    \E r \in Runs :
        /\ r \in aborted
        /\ settingsOperator = "LocalComputer"
        /\ pc[r] = "top"
        /\ status = "RUNNING"
        /\ loopCnt[r] >= 1
        /\ predictionMarker = NoMarker

\* C34: on the Windows clipboard-paste path of type in the local-desktop operator, when
\* execute() has ended, returned or thrown, after reading the clipboard into
\* originalClipboard, the clipboard holds that text again.
C34_ClipboardRestoredAtEnd ==
    (deskPc = "idle" /\ deskType = "type" /\ originalClipboard # NoClipboard) =>
        clipboard = originalClipboard

=============================================================================
